---- MODULE Spec2Model ----
(***************************************************************************)
(* Fechamento de Containers: the form program (programa_fechamento.py) and *)
(* the batch analyser (analisar_fechamento.py).                            *)
(*                                                                         *)
(* Texts are sequences of one-character strings, so that formatting and    *)
(* parsing are computed character by character.  A number is a fixed-point *)
(* decimal counted in units of 1/Unit (four decimals); an optional number  *)
(* is <<>> (Python's None) or <<v>>.  The one unrounded quotient of the    *)
(* program, ops_total.peso_medio, is kept exact as <<num, den>>.           *)
(* Python rounds and formats the binary value of a float; here rounding is *)
(* computed on the decimal value, a tie going to the even neighbour.       *)
(***************************************************************************)
EXTENDS Integers, Sequences, FiniteSets, TLC

VARIABLES
    form,      \* the texts of the Entry widgets and the two row lists
    dados,     \* the record built by the handler that ran last
    log,       \* the calls the handler that ran last made, in order
    arquivo,   \* the text of the CSV file written last
    linhas,    \* the grid ler_csv returned last
    extraido,  \* the result of the extraction that ran last
    msg,       \* the message box shown last
    ndig,      \* typing steps so far (bounds the model only)
    passos,    \* operator actions so far (bounds the model only)
    pc,        \* position in the flow being checked
    html,      \* what the report written last shows
    cod_texto, \* the text given to, or returned by, the codec
    cod_casas, \* the number of decimals given to fmt_numero
    cod_valor, \* the number given to, or returned by, the codec
    cod_saida  \* the result of the codec round trip

vars == <<form, dados, log, arquivo, linhas, extraido, msg, ndig, passos, pc,
          html, cod_texto, cod_casas, cod_valor, cod_saida>>

\* The variables of the codec flow.
codec == <<cod_texto, cod_casas, cod_valor, cod_saida>>

-----------------------------------------------------------------------------
(* Numbers *)

RECURSIVE Pow10(_)
Pow10(k) == IF k = 0 THEN 1 ELSE 10 * Pow10(k - 1)

\* Fixed-point resolution of the model: a value v stands for v / Unit.
Unit == Pow10(4)

None == <<>>
Some(v) == <<v>>
Abs(x) == IF x < 0 THEN -x ELSE x
Sgn(x) == IF x < 0 THEN -1 ELSE 1

\* Python truthiness of an optional number: None and 0 are falsy.
Truthy(v) == v # None /\ v[1] # 0

\* "v or 0"
OrZero(v) == IF Truthy(v) THEN v[1] ELSE 0

\* floor(a * 10^k / den) and the remainder, by long division (a, den >= 0).
RECURSIVE LongDiv(_, _, _)
LongDiv(a, den, k) ==
    IF k = 0 THEN <<a \div den, a % den>>
    ELSE LET p == LongDiv(a, den, k - 1)
         IN  <<p[1] * 10 + (p[2] * 10) \div den, (p[2] * 10) % den>>

\* The quotient num/den rounded to d decimals (d <= 4), in units.
RoundQ(num, den, d) ==
    LET p  == LongDiv(Abs(num), Abs(den), d)
        up == 2 * p[2] > Abs(den) \/ (2 * p[2] = Abs(den) /\ p[1] % 2 = 1)
        q  == IF up THEN p[1] + 1 ELSE p[1]
    IN  Sgn(num) * Sgn(den) * q * Pow10(4 - d)

\* round(x, d) of a value in units.
Round(x, d) == RoundQ(x, Unit, d)

RECURSIVE SumSeq(_)
SumSeq(s) == IF s = <<>> THEN 0 ELSE s[1] + SumSeq(Tail(s))

-----------------------------------------------------------------------------
(* Texts *)

Digitos == <<"0", "1", "2", "3", "4", "5", "6", "7", "8", "9">>

IsDigit(c) == \E i \in 1..10 : Digitos[i] = c
DigitVal(c) == (CHOOSE i \in 1..10 : Digitos[i] = c) - 1
DigitChar(d) == Digitos[d + 1]

\* str(n) for n >= 0.
RECURSIVE IntDigits(_)
IntDigits(n) ==
    IF n < 10 THEN <<DigitChar(n)>>
    ELSE Append(IntDigits(n \div 10), DigitChar(n % 10))

\* The "," option of Python's format: a separator before every group of three
\* digits counted from the right.
RECURSIVE Group(_, _)
Group(ds, sep) ==
    IF Len(ds) <= 3 THEN ds
    ELSE Group(SubSeq(ds, 1, Len(ds) - 3), sep) \o <<sep>>
             \o SubSeq(ds, Len(ds) - 2, Len(ds))

\* k decimal digits of r/den (r < den) and the remainder left after them.
RECURSIVE FracDiv(_, _, _)
FracDiv(r, den, k) ==
    IF k = 0 THEN <<<<>>, r>>
    ELSE LET rest == FracDiv((r * 10) % den, den, k - 1)
         IN  <<<<(r * 10) \div den>> \o rest[1], rest[2]>>

\* A digit sequence plus one in its last place, and the carry out of it.
RECURSIVE IncDigits(_)
IncDigits(f) ==
    IF f = <<>> THEN <<<<>>, 1>>
    ELSE LET n == Len(f)
         IN  IF f[n] < 9 THEN <<[f EXCEPT ![n] = f[n] + 1], 0>>
             ELSE LET p == IncDigits(SubSeq(f, 1, n - 1))
                  IN  <<Append(p[1], 0), p[2]>>

\* f"{v:,.{dec}f}" (grp) or f"{v:.{dec}f}" of v = num/den, with the decimal
\* point written as decsep and the thousands comma as grpsep.
FmtFixed(num, den, dec, grp, decsep, grpsep) ==
    LET a    == Abs(num)
        b    == Abs(den)
        ip   == a \div b
        fd   == FracDiv(a % b, b, dec)
        last == IF dec = 0 THEN ip % 10 ELSE fd[1][dec]
        up   == 2 * fd[2] > b \/ (2 * fd[2] = b /\ last % 2 = 1)
        inc  == IF up THEN IncDigits(fd[1]) ELSE <<fd[1], 0>>
        ids  == IntDigits(ip + inc[2])
        sign == IF (num < 0) # (den < 0) /\ num # 0 THEN <<"-">> ELSE <<>>
    IN  sign \o (IF grp THEN Group(ids, grpsep) ELSE ids)
             \o (IF dec = 0 THEN <<>>
                 ELSE <<decsep>> \o [i \in 1..dec |-> DigitChar(inc[1][i])])

\* Numerator and denominator of a present number.
Num(v) == v[1]
Den(v) == IF Len(v) = 2 THEN v[2] ELSE Unit

\* str.strip() over the blank of the alphabet.
RECURSIVE LStrip(_)
LStrip(t) == IF t # <<>> /\ t[1] = " " THEN LStrip(Tail(t)) ELSE t
RECURSIVE RStrip(_)
RStrip(t) ==
    IF t # <<>> /\ t[Len(t)] = " " THEN RStrip(SubSeq(t, 1, Len(t) - 1)) ELSE t
Strip(t) == RStrip(LStrip(t))

\* str.replace(c, "") and str.replace(c, d) for single characters.
Remove(t, c) == SelectSeq(t, LAMBDA x : x # c)
Replace(t, c, d) == [i \in 1..Len(t) |-> IF t[i] = c THEN d ELSE t[i]]

AllDigits(t) == \A i \in 1..Len(t) : IsDigit(t[i])

RECURSIVE DigitsVal(_)
DigitsVal(t) ==
    IF t = <<>> THEN 0
    ELSE DigitsVal(SubSeq(t, 1, Len(t) - 1)) * 10 + DigitVal(t[Len(t)])

\* The fraction digits as units; digits beyond the model's resolution are
\* rounded to it.
FracUnits(t) ==
    LET pad  == t \o <<"0", "0", "0", "0">>
        head == DigitsVal(SubSeq(pad, 1, 4))
        rest == SubSeq(t, 5, Len(t))
        half == rest # <<>> /\ rest[1] = "5"
                    /\ \A i \in 2..Len(rest) : rest[i] = "0"
        over == rest # <<>> /\ ~half /\ DigitVal(rest[1]) >= 5
    IN  IF over \/ (half /\ head % 2 = 1) THEN head + 1 ELSE head

\* float(t) for t over the digits, the sign and the point; None stands for
\* ValueError.  The other spellings float() accepts (exponent, underscore,
\* inf, nan) need characters that are not in the alphabet of the model.
ParseFloat(t) ==
    LET signed == t # <<>> /\ t[1] \in {"-", "+"}
        body   == IF signed THEN Tail(t) ELSE t
        dots   == {i \in 1..Len(body) : body[i] = "."}
        ipart  == IF dots = {} THEN body
                  ELSE SubSeq(body, 1, (CHOOSE i \in dots : TRUE) - 1)
        fpart  == IF dots = {} THEN <<>>
                  ELSE SubSeq(body, (CHOOSE i \in dots : TRUE) + 1, Len(body))
        ok     == /\ Cardinality(dots) <= 1
                  /\ AllDigits(ipart) /\ AllDigits(fpart)
                  /\ Len(ipart) + Len(fpart) > 0
        mag    == DigitsVal(ipart) * Unit + FracUnits(fpart)
    IN  IF ~ok THEN None
        ELSE Some(IF signed /\ t[1] = "-" THEN -mag ELSE mag)

\* parse_numero without its replace("%", "").
ParseNumeroSemPct(valor) ==
    LET v == Strip(valor)
    IN  IF v = <<>> \/ v = <<"-">> THEN None
        ELSE ParseFloat(Replace(Remove(Remove(v, " "), "."), ",", "."))

\* None and the empty text are both <<>>: a null input and an empty cell
\* take the same two early returns.
parse_numero(valor) ==
    LET v == Strip(valor)
    IN  IF v = <<>> \/ v = <<"-">> THEN None
        ELSE ParseFloat(Remove(Replace(Remove(Remove(v, " "), "."), ",", "."), "%"))

\* fmt_numero with the format ".{d}f" in place of ",.{d}f".
FmtNumeroSemMilhar(valor, decimais) ==
    IF valor = None THEN <<"-">>
    ELSE FmtFixed(Num(valor), Den(valor), decimais, FALSE, ",", ".")

fmt_numero(valor, decimais) ==
    IF valor = None THEN <<"-">>
    ELSE FmtFixed(Num(valor), Den(valor), decimais, TRUE, ",", ".")

fmt_pct(valor) ==
    IF valor = None THEN <<"-">>
    ELSE Append(FmtFixed(Num(valor), Den(valor), 2, FALSE, ".", ","), "%")

\* safe_float on the text of an Entry widget.
safe_float(texto, default) ==
    LET t == Strip(texto)
    IN  IF t = <<>> \/ t = <<"-">> THEN default
        ELSE LET v == ParseFloat(Remove(Remove(Replace(Remove(t, "."), ",", "."),
                                               "%"), " "))
             IN  IF v = None THEN default ELSE v

-----------------------------------------------------------------------------
(* The form of AppFechamentoContainer *)

\* nomes_default; the cedilla of "PECAS" is written as a plain C.
NomesDefault ==
    << <<"P", "E", "C", "A", "S", " ", "C", "O", "R", "T", "A", "D", "A", "S">>,
       <<"B", "A", "B", "Y", " ", "R", "E", "T", "I", "R", "A", "D", "O">>,
       <<"R", "E", "T", "A", "L", "H", "O", "S">> >>

TituloDefault ==
    <<"F", "E", "C", "H", "A", "M", "E", "N", "T", "O", " ",
      "C", "O", "N", "T", "A", "I", "N", "E", "R">>

ItemRowVazio(i) ==
    [nome |-> NomesDefault[i], pecas |-> <<>>, kgs |-> <<>>, peso_unit |-> <<>>]

\* The row adicionar_op appends: three empty entries.
OpRowNova == [op |-> <<>>, kgs |-> <<>>, pecas |-> <<>>]

\* The row adicionar_manta appends when idx rows exist: label "#<idx+1>".
MantaRowNova(idx) ==
    [manta |-> <<"#">> \o IntDigits(idx + 1),
     largura |-> <<>>, comprimento |-> <<>>, peso |-> <<>>]

\* Default numbers of rows _build_ui adds.
OpsDefault == 4
MantasDefault == 13

\* The form once _build_ui has run.
FormInicial ==
    [titulo     |-> <<>>,
     pt_unit    |-> <<>>,
     pr_unit    |-> <<>>,
     pt_items   |-> [i \in 1..3 |-> ItemRowVazio(i)],
     pr_items   |-> [i \in 1..3 |-> ItemRowVazio(i)],
     op_rows    |-> [i \in 1..OpsDefault |-> OpRowNova],
     manta_rows |-> [i \in 1..MantasDefault |-> MantaRowNova(i - 1)]]

-----------------------------------------------------------------------------
(* coletar_dados *)

ColetarItens(rows) ==
    [i \in 1..Len(rows) |->
        [nome      |-> Strip(rows[i].nome),
         pecas     |-> safe_float(rows[i].pecas, None),
         kgs       |-> safe_float(rows[i].kgs, None),
         peso_unit |-> safe_float(rows[i].peso_unit, None),
         pct       |-> None]]

ColetarSecao(unit, rows) ==
    [peso_unitario |-> safe_float(unit, Some(0)),
     itens         |-> ColetarItens(rows),
     total_kgs     |-> None,
     total_pct     |-> None]

\* Every OP row, named or not.
ColetarOpsTodas(rows) ==
    [i \in 1..Len(rows) |->
        [op    |-> Strip(rows[i].op),
         kgs   |-> safe_float(rows[i].kgs, None),
         pecas |-> safe_float(rows[i].pecas, None)]]

\* The OP rows with a name, in order.
ColetarOps(rows) ==
    LET named == SelectSeq(rows, LAMBDA r : Strip(r.op) # <<>>)
    IN  [i \in 1..Len(named) |->
            [op    |-> Strip(named[i].op),
             kgs   |-> safe_float(named[i].kgs, None),
             pecas |-> safe_float(named[i].pecas, None)]]

ColetarOpsTotal(ops) ==
    LET total_kgs_ops   == SumSeq([i \in 1..Len(ops) |-> OrZero(ops[i].kgs)])
        total_pecas_ops == SumSeq([i \in 1..Len(ops) |-> OrZero(ops[i].pecas)])
    IN  [kgs        |-> Some(total_kgs_ops),
         pecas      |-> Some(total_pecas_ops),
         peso_medio |-> IF total_pecas_ops # 0
                        THEN <<total_kgs_ops, total_pecas_ops>> ELSE None]

ColetarGramatura(rows) ==
    LET named == SelectSeq(rows, LAMBDA r : Strip(r.manta) # <<>>)
    IN  [i \in 1..Len(named) |->
            [manta       |-> Strip(named[i].manta),
             largura     |-> safe_float(named[i].largura, None),
             comprimento |-> safe_float(named[i].comprimento, None),
             peso        |-> safe_float(named[i].peso, None)]]

coletar_dados(f) ==
    LET ops == ColetarOps(f.op_rows)
    IN  [titulo          |-> IF Strip(f.titulo) # <<>> THEN Strip(f.titulo)
                             ELSE TituloDefault,
         peso_teorico    |-> ColetarSecao(f.pt_unit, f.pt_items),
         peso_real       |-> ColetarSecao(f.pr_unit, f.pr_items),
         ops             |-> ops,
         ops_total       |-> ColetarOpsTotal(ops),
         resumo          |-> [kgs_coletados |-> None, kgs_consumidos |-> None,
                              saldo_devedor |-> None],
         gramatura       |-> ColetarGramatura(f.manta_rows),
         gramatura_media |-> [largura |-> None, comprimento |-> None,
                              peso |-> None]]

-----------------------------------------------------------------------------
(* The four passes of the calculator *)

Secoes == {"peso_teorico", "peso_real"}

\* The sum of "kgs or 0" over the items of a section.
SomaKgs(itens) == SumSeq([i \in 1..Len(itens) |-> OrZero(itens[i].kgs)])

\* The total of a section without the final round(total, 2).
TotalKgsSemArredondar(sec) == Some(SomaKgs(sec.itens))

\* The total of a section kept when the record already carries one.
TotalKgsSeAusente(sec) ==
    IF sec.total_kgs # None THEN sec.total_kgs
    ELSE Some(Round(SomaKgs(sec.itens), 2))

TotalKgsSecao(sec) == Some(Round(SomaKgs(sec.itens), 2))

\* The totals pass that also resets the section percents.
TotalKgsLimpandoPct(d) ==
    [d EXCEPT !.peso_teorico.total_kgs = TotalKgsSecao(d.peso_teorico),
              !.peso_teorico.total_pct = None,
              !.peso_real.total_kgs    = TotalKgsSecao(d.peso_real),
              !.peso_real.total_pct    = None]

_calcular_total_kgs(d) ==
    [d EXCEPT !.peso_teorico.total_kgs = TotalKgsSecao(d.peso_teorico),
              !.peso_real.total_kgs    = TotalKgsSecao(d.peso_real)]

\* The mean over the truthy values only: "if m.get(f)" in place of
\* "if m.get(f) is not None", which drops a measured 0.
MediaCampoSemZeros(vals, dec) ==
    LET xs == SelectSeq(vals, LAMBDA v : Truthy(v))
    IN  IF xs = <<>> THEN None
        ELSE Some(RoundQ(SumSeq([i \in 1..Len(xs) |-> xs[i][1]]),
                         Len(xs) * Unit, dec))

\* round(sum(xs) / len(xs), dec) if xs else None, over the present values.
MediaCampo(vals, dec) ==
    LET xs == SelectSeq(vals, LAMBDA v : v # None)
    IN  IF xs = <<>> THEN None
        ELSE Some(RoundQ(SumSeq([i \in 1..Len(xs) |-> xs[i][1]]),
                         Len(xs) * Unit, dec))

_calcular_media_gramatura(d) ==
    LET g == d.gramatura
    IN  [d EXCEPT !.gramatura_media =
            [largura     |-> MediaCampo([i \in 1..Len(g) |-> g[i].largura], 4),
             comprimento |-> MediaCampo([i \in 1..Len(g) |-> g[i].comprimento], 2),
             peso        |-> MediaCampo([i \in 1..Len(g) |-> g[i].peso], 3)]]

\* The balance taken from the two rounded figures instead of the raw ones.
ResumoDosArredondados(d) ==
    LET kgs_coletados  == Round(OrZero(d.ops_total.kgs), 2)
        kgs_consumidos == Round(OrZero(d.peso_teorico.total_kgs), 2)
    IN  [d EXCEPT !.resumo =
            [kgs_coletados  |-> Some(kgs_coletados),
             kgs_consumidos |-> Some(kgs_consumidos),
             saldo_devedor  |-> Some(kgs_coletados - kgs_consumidos)]]

\* The summary that adds the collected mass to the one already stored.
ResumoAcumulado(d) ==
    LET kgs_coletados  == OrZero(d.ops_total.kgs) + OrZero(d.resumo.kgs_coletados)
        kgs_consumidos == OrZero(d.peso_teorico.total_kgs)
        saldo_devedor  == kgs_coletados - kgs_consumidos
    IN  [d EXCEPT !.resumo =
            [kgs_coletados  |-> Some(Round(kgs_coletados, 2)),
             kgs_consumidos |-> Some(Round(kgs_consumidos, 2)),
             saldo_devedor  |-> Some(Round(saldo_devedor, 2))]]

_calcular_resumo(d) ==
    LET kgs_coletados  == OrZero(d.ops_total.kgs)
        kgs_consumidos == OrZero(d.peso_teorico.total_kgs)
        saldo_devedor  == kgs_coletados - kgs_consumidos
    IN  [d EXCEPT !.resumo =
            [kgs_coletados  |-> Some(Round(kgs_coletados, 2)),
             kgs_consumidos |-> Some(Round(kgs_consumidos, 2)),
             saldo_devedor  |-> Some(Round(saldo_devedor, 2))]]

\* The share of one item as a fraction, the "* 100" left out.
PctItemFracao(item, kgs_coletados) ==
    LET kgs == OrZero(item.kgs)
    IN  IF kgs_coletados # 0 /\ kgs # 0
        THEN Some(RoundQ(kgs, kgs_coletados, 2))
        ELSE Some(0)

\* round(pct, 2) of one item.
PctItem(item, kgs_coletados) ==
    LET kgs == OrZero(item.kgs)
    IN  IF kgs_coletados # 0 /\ kgs # 0
        THEN Some(RoundQ(kgs * 100, kgs_coletados, 2))
        ELSE Some(0)

\* total_pct of a section taken against the raw OP total as a fraction.
TotalPctFracao(sec, kgs_coletados) ==
    LET total_kgs == OrZero(sec.total_kgs)
    IN  IF kgs_coletados # 0 /\ total_kgs # 0
        THEN Some(RoundQ(total_kgs, kgs_coletados, 2))
        ELSE Some(0)

\* total_pct of a section: from total_kgs, else the rounded sum of the
\* unrounded item percents, which is 100 * sum(kgs) / kgs_coletados.
TotalPctSecao(sec, kgs_coletados) ==
    LET total_kgs == OrZero(sec.total_kgs)
    IN  IF kgs_coletados # 0 /\ total_kgs # 0
        THEN Some(RoundQ(total_kgs * 100, kgs_coletados, 2))
        ELSE IF kgs_coletados # 0
             THEN Some(RoundQ(SomaKgs(sec.itens) * 100, kgs_coletados, 2))
             ELSE Some(0)

PercentuaisSecao(sec, kgs_coletados) ==
    [sec EXCEPT !.itens = [i \in 1..Len(sec.itens) |->
                              [sec.itens[i] EXCEPT
                                  !.pct = PctItem(sec.itens[i], kgs_coletados)]],
                !.total_pct = TotalPctSecao(sec, kgs_coletados)]

_calcular_percentuais(d) ==
    LET kgs_coletados == OrZero(d.resumo.kgs_coletados)
    IN  [d EXCEPT !.peso_teorico = PercentuaisSecao(d.peso_teorico, kgs_coletados),
                  !.peso_real    = PercentuaisSecao(d.peso_real, kgs_coletados)]

-----------------------------------------------------------------------------
(* gerar_csv *)

\* n(v, dec), n4(v), pct(v) and ni(v), the local formatters of gerar_csv.
n(v, dec) ==
    IF v = None THEN <<"-">>
    ELSE FmtFixed(Num(v), Den(v), dec, TRUE, ",", ".")

n4(v) == n(v, 4)

pct(v) ==
    IF v = None THEN <<"-">>
    ELSE Append(FmtFixed(Num(v), Den(v), 2, FALSE, ",", "."), "%")

\* int(v) truncates towards zero.
ni(v) ==
    IF v = None THEN <<"-">>
    ELSE LET m == Abs(Num(v)) \div Abs(Den(v))
             neg == (Num(v) < 0) # (Den(v) < 0)
         IN  (IF neg /\ m # 0 THEN <<"-">> ELSE <<>>) \o Group(IntDigits(m), ".")

Vazio == <<>>
Traco == <<" ", "-", " ", " ", " ">>

ItemVazio ==
    [nome |-> Vazio, pecas |-> None, kgs |-> None, peso_unit |-> None, pct |-> None]
OpVazia == [op |-> Vazio, kgs |-> None, pecas |-> None]

\* Cells 0-4 of an item line.
ItemCells(item) ==
    << item.nome,
       IF Truthy(item.pecas) THEN ni(item.pecas) ELSE Traco,
       IF Truthy(item.kgs) THEN n(item.kgs, 4) ELSE Vazio,
       IF Truthy(item.peso_unit) THEN n(item.peso_unit, 6) ELSE Traco,
       IF Truthy(item.pct) THEN pct(item.pct) ELSE Vazio >>

\* The gauge cells with room for the first 11 entries only.
GramCellsOnze(gram, k) ==
    IF k < Len(gram) /\ k < 11
    THEN LET g == gram[k + 1]
         IN  << g.manta,
                IF Truthy(g.largura) THEN n(g.largura, 2) ELSE Vazio,
                IF Truthy(g.comprimento) THEN n(g.comprimento, 2) ELSE Vazio,
                IF Truthy(g.peso) THEN n(g.peso, 3) ELSE Vazio >>
    ELSE <<Vazio, Vazio, Vazio, Vazio>>

\* Cells 11-14 of a line that carries gauge entry k (from 0), if it exists.
GramCells(gram, k) ==
    IF k < Len(gram)
    THEN LET g == gram[k + 1]
         IN  << g.manta,
                IF Truthy(g.largura) THEN n(g.largura, 2) ELSE Vazio,
                IF Truthy(g.comprimento) THEN n(g.comprimento, 2) ELSE Vazio,
                IF Truthy(g.peso) THEN n(g.peso, 3) ELSE Vazio >>
    ELSE <<Vazio, Vazio, Vazio, Vazio>>

Vazios(k) == [i \in 1..k |-> Vazio]

\* The fixed texts of the layout (the cedilla of PECAS written as C).
Txt_KGSCONS ==
    <<"K", "G", "S", " ", "C", "O", "N", "S", "U", "M", "I", "D", "O", "S">>
Txt_SALDO ==
    <<"S", "A", "L", "D", "O", " ", "D", "E", "V", "E", "D", "O", "R", " ", "(", "K", "G", "S", ")">>
Txt_NFPERDA ==
    <<"N", "F", " ", "P", "e", "r", "d", "a">>
Txt_PESOTEORICO ==
    <<"P", "E", "S", "O", " ", "T", "E", "O", "R", "I", "C", "O">>
Txt_OPSUTIL ==
    <<"O", "P", "S", " ", "U", "T", "I", "L", "I", "Z", "A", "D", "A", "S">>
Txt_KGSUTIL ==
    <<"K", "G", "S", " ", "U", "T", "I", "L", "I", "Z", "A", "D", "O", "S">>
Txt_PECAS ==
    <<"P", "E", "C", "A", "S">>
Txt_CONF ==
    <<"C", "O", "N", "F", "E", "R", "E", "N", "C", "I", "A", " ", "D", "E", " ", "G", "R", "A", "M", "A", "T", "U", "R", "A">>
Txt_KGS ==
    <<"K", "G", "S">>
Txt_PESOUNIT ==
    <<"P", "E", "S", "O", " ", "U", "N", "I", "T">>
Txt_MANTA ==
    <<"M", "A", "N", "T", "A">>
Txt_LARGURA ==
    <<"L", "A", "R", "G", "U", "R", "A">>
Txt_COMPRIMENTO ==
    <<"C", "O", "M", "P", "R", "I", "M", "E", "N", "T", "O">>
Txt_PESO ==
    <<"P", "E", "S", "O">>
Txt_TOTAL ==
    <<"T", "O", "T", "A", "L">>
Txt_PESOREAL ==
    <<"P", "E", "S", "O", " ", "R", "E", "A", "L">>
Txt_RESUMOTOTAL ==
    <<"R", "E", "S", "U", "M", "O", " ", "T", "O", "T", "A", "L">>
Txt_KGSCOL ==
    <<"K", "G", "S", " ", "C", "O", "L", "E", "T", "A", "D", "O", "S">>
Txt_MEDIA ==
    <<"M", "E", "D", "I", "A">>

ResumoLabels == << Txt_KGSCONS, Vazio, Txt_SALDO >>
ResumoExtra == << Vazio, Vazio, Txt_NFPERDA >>

\* The 18 lines gerar_csv builds, each a sequence of cells.
GerarLinhas(d) ==
    LET ops   == d.ops
        gram  == d.gramatura
        pt    == d.peso_teorico
        pr    == d.peso_real
        op0   == IF Len(ops) > 0 THEN ops[1] ELSE OpVazia
        item_t(idx) == IF idx < Len(pt.itens) THEN pt.itens[idx + 1] ELSE ItemVazio
        item_r(idx) == IF idx < Len(pr.itens) THEN pr.itens[idx + 1] ELSE ItemVazio
        op_i(idx)   == IF idx + 1 < Len(ops) THEN ops[idx + 2] ELSE OpVazia
        resumo_vals == <<d.resumo.kgs_consumidos, None, d.resumo.saldo_devedor>>
        linha_t(idx) ==
            ItemCells(item_t(idx)) \o
            << Vazio, op_i(idx).op,
               IF Truthy(op_i(idx).kgs) THEN n(op_i(idx).kgs, 1) ELSE Vazio,
               IF Truthy(op_i(idx).pecas) THEN ni(op_i(idx).pecas) ELSE Vazio,
               Vazio, Vazio >> \o GramCells(gram, idx)
        linha_r(idx) ==
            ItemCells(item_r(idx)) \o
            << Vazio, ResumoLabels[idx + 1],
               IF resumo_vals[idx + 1] # None THEN n(resumo_vals[idx + 1], 2)
               ELSE Vazio,
               ResumoExtra[idx + 1], Vazio, Vazio >> \o GramCells(gram, 8 + idx)
    IN  << <<d.titulo>> \o Vazios(14),
           << Txt_PESOTEORICO, Vazio, Vazio, Vazio, n4(pt.peso_unitario), Vazio,
              Txt_OPSUTIL, Txt_KGSUTIL, Txt_PECAS, Vazio, Vazio,
              Txt_CONF, Vazio, Vazio, Vazio >>,
           << Vazio, Txt_PECAS, Txt_KGS, Txt_PESOUNIT, <<"%">>, Vazio,
              op0.op, n(op0.kgs, 1), ni(op0.pecas), Vazio, Vazio,
              Txt_MANTA, Txt_LARGURA, Txt_COMPRIMENTO, Txt_PESO >>,
           linha_t(0), linha_t(1), linha_t(2),
           << Vazio, Vazio, Vazio, Vazio, Vazio, Vazio,
              Txt_TOTAL, n(d.ops_total.kgs, 1), ni(d.ops_total.pecas),
              IF Truthy(d.ops_total.peso_medio) THEN n(d.ops_total.peso_medio, 9)
              ELSE Vazio,
              Vazio >> \o GramCells(gram, 3),
           << Vazio, Vazio, n(pt.total_kgs, 2), Vazio, pct(pt.total_pct) >>
              \o Vazios(6) \o GramCells(gram, 4),
           Vazios(11) \o GramCells(gram, 5),
           << Txt_PESOREAL, Vazio, Vazio, Vazio, n4(pr.peso_unitario), Vazio,
              Txt_RESUMOTOTAL, Vazio, Vazio, Vazio, Vazio >> \o GramCells(gram, 6),
           << Vazio, Txt_PECAS, Txt_KGS, Txt_PESOUNIT, <<"%">>, Vazio,
              Txt_KGSCOL, n(d.resumo.kgs_coletados, 2), Vazio, Vazio, Vazio >>
              \o GramCells(gram, 7),
           linha_r(0), linha_r(1), linha_r(2),
           Vazios(11) \o GramCells(gram, 11),
           << Vazio, Vazio, n(pr.total_kgs, 2), Vazio, pct(pr.total_pct) >>
              \o Vazios(6) \o GramCells(gram, 12),
           Vazios(15),
           Vazios(11) \o
           << Txt_MEDIA, n4(d.gramatura_media.largura),
              n(d.gramatura_media.comprimento, 2), n(d.gramatura_media.peso, 3) >> >>

\* ";".join(cells) + "\n"
RECURSIVE JoinCells(_)
JoinCells(cells) ==
    IF cells = <<>> THEN <<>>
    ELSE IF Len(cells) = 1 THEN cells[1]
    ELSE cells[1] \o <<";">> \o JoinCells(Tail(cells))

RECURSIVE JoinLinhas(_)
JoinLinhas(ls) ==
    IF ls = <<>> THEN <<>>
    ELSE JoinCells(ls[1]) \o <<"\n">> \o JoinLinhas(Tail(ls))

\* The text gerar_csv returns.
gerar_csv(d) == JoinLinhas(GerarLinhas(d))

-----------------------------------------------------------------------------
(* ler_csv *)

\* The first position at or after i of a character of the set cs, or
\* Len(t) + 1.
Proximo(t, cs, i) ==
    IF \E j \in i..Len(t) : t[j] \in cs
    THEN CHOOSE j \in i..Len(t) :
             t[j] \in cs /\ \A k \in i..(j - 1) : t[k] \notin cs
    ELSE Len(t) + 1

\* The rest of a quoted cell from position i, acc being what it holds so
\* far: up to the closing quote, two quotes standing for one, then whatever
\* follows the closing quote up to the end of the cell. Without a closing
\* quote the cell runs to the end of the text.
RECURSIVE Aspas(_, _, _)
Aspas(t, i, acc) ==
    LET q == Proximo(t, {"\""}, i)
    IN  IF q > Len(t)
        THEN [campo |-> acc \o SubSeq(t, i, Len(t)), fim |-> Len(t) + 1]
        ELSE IF q < Len(t) /\ t[q + 1] = "\""
        THEN Aspas(t, q + 2, acc \o SubSeq(t, i, q - 1) \o <<"\"">>)
        ELSE LET j == Proximo(t, {";", "\n"}, q + 1)
             IN  [campo |-> acc \o SubSeq(t, i, q - 1) \o SubSeq(t, q + 1, j - 1),
                  fim   |-> j]

\* The cell that starts at position i and the position of the character
\* that ends it. A cell that begins with a quote is a quoted cell; a quote
\* elsewhere is an ordinary character.
CampoDe(t, i) ==
    IF i <= Len(t) /\ t[i] = "\""
    THEN Aspas(t, i + 1, <<>>)
    ELSE LET j == Proximo(t, {";", "\n"}, i)
         IN  [campo |-> SubSeq(t, i, j - 1), fim |-> j]

\* The row whose next cell starts at position i.
RECURSIVE LinhaDe(_, _, _)
LinhaDe(t, i, linha) ==
    LET f == CampoDe(t, i)
    IN  IF f.fim <= Len(t) /\ t[f.fim] = ";"
        THEN LinhaDe(t, f.fim + 1, Append(linha, f.campo))
        ELSE [linha |-> Append(linha, f.campo), fim |-> f.fim]

\* The rows from position i on; an empty line gives a row without cells.
RECURSIVE LerDe(_, _, _)
LerDe(t, i, feitas) ==
    IF i > Len(t) THEN feitas
    ELSE IF t[i] = "\n" THEN LerDe(t, i + 1, Append(feitas, <<>>))
    ELSE LET r == LinhaDe(t, i, <<>>)
         IN  LerDe(t, r.fim + 1, Append(feitas, r.linha))

\* csv.reader(f, delimiter=";") in the default dialect, not strict.
ler_csv(texto) == LerDe(texto, 1, <<>>)

-----------------------------------------------------------------------------
(* extrair_dados_csv (the form program) and extrair_dados (the analyser) *)

\* Rows and columns are counted from 0, as in the source.
NRows(ls) == Len(ls)
RowLen(ls, r) == Len(ls[r + 1])
Cel(ls, r, c) == ls[r + 1][c + 1]

\* An unguarded read linhas[r][c] raises IndexError unless the cell exists.
Exists(ls, r, c) == r < NRows(ls) /\ c < RowLen(ls, r)

IndexError == [erro |-> "IndexError"]
IsErro(x) == "erro" \in DOMAIN x

ItemRows(first) == {first, first + 1, first + 2}

ExtrairItens(ls, first) ==
    [k \in 1..3 |->
        LET i == first + k - 1
        IN  [nome      |-> Strip(Cel(ls, i, 0)),
             pecas     |-> parse_numero(Cel(ls, i, 1)),
             kgs       |-> parse_numero(Cel(ls, i, 2)),
             peso_unit |-> parse_numero(Cel(ls, i, 3)),
             pct       |-> parse_numero(Cel(ls, i, 4))]]

ExtrairSecao(ls, unitRow, first, totalRow) ==
    [peso_unitario |-> parse_numero(Cel(ls, unitRow, 4)),
     itens         |-> ExtrairItens(ls, first),
     total_kgs     |-> parse_numero(Cel(ls, totalRow, 2)),
     total_pct     |-> parse_numero(Cel(ls, totalRow, 4))]

\* parse_numero(linhas[r][c]) if len(linhas[r]) > c else None
CelNum(ls, r, c) == IF RowLen(ls, r) > c THEN parse_numero(Cel(ls, r, c)) ELSE None

\* linhas[r][c].strip() if len(linhas[r]) > c and linhas[r][c].strip() else None,
\* with <<>> for None: both are falsy where the result is tested.
CelTxt(ls, r, c) == IF RowLen(ls, r) > c THEN Strip(Cel(ls, r, c)) ELSE <<>>

\* The concatenation of Op(lo), ..., Op(hi): the appends of a loop over rows.
RECURSIVE Concat(_)
Concat(ss) == IF ss = <<>> THEN <<>> ELSE ss[1] \o Concat(Tail(ss))
SeqOfRows(lo, hi, Op(_)) == Concat([k \in 1..(hi - lo + 1) |-> Op(lo + k - 1)])

\* The OP rows taken without the test for the TOTAL row.
ExtrairOpsComTotal(ls) ==
    LET entry(i) ==
            LET op == CelTxt(ls, i, 6)
            IN  IF op # <<>>
                THEN <<[op |-> op, kgs |-> CelNum(ls, i, 7),
                        pecas |-> CelNum(ls, i, 8)]>>
                ELSE <<>>
    IN  SeqOfRows(2, 6, entry)

ExtrairOpsCsv(ls) ==
    LET entry(i) ==
            LET op == CelTxt(ls, i, 6)
            IN  IF op # <<>> /\ op # Txt_TOTAL
                THEN <<[op |-> op, kgs |-> CelNum(ls, i, 7),
                        pecas |-> CelNum(ls, i, 8)]>>
                ELSE <<>>
    IN  SeqOfRows(2, 6, entry)

\* The gauge rows taken for any label, with or without the "#".
ExtrairGramaturaSemCerquilha(ls) ==
    LET entry(i) ==
            LET manta == CelTxt(ls, i, 11)
            IN  IF manta # <<>>
                THEN <<[manta       |-> manta,
                        largura     |-> CelNum(ls, i, 12),
                        comprimento |-> CelNum(ls, i, 13),
                        peso        |-> CelNum(ls, i, 14)]>>
                ELSE <<>>
    IN  SeqOfRows(3, 15, entry)

ExtrairGramaturaCsv(ls) ==
    LET entry(i) ==
            LET manta == CelTxt(ls, i, 11)
            IN  IF manta # <<>> /\ manta[1] = "#"
                THEN <<[manta       |-> manta,
                        largura     |-> CelNum(ls, i, 12),
                        comprimento |-> CelNum(ls, i, 13),
                        peso        |-> CelNum(ls, i, 14)]>>
                ELSE <<>>
    IN  SeqOfRows(3, 15, entry)

\* linhas[17] is read only if len(linhas) > 17.
CelMedia(ls, c) ==
    IF NRows(ls) > 17 /\ RowLen(ls, 17) > c THEN parse_numero(Cel(ls, 17, c))
    ELSE None

\* The reads extrair_dados_csv makes without a length test.
LeiturasCsv ==
    {<<0, 0>>, <<1, 4>>, <<7, 2>>, <<7, 4>>, <<9, 4>>, <<15, 2>>, <<15, 4>>}
        \cup ((ItemRows(3) \cup ItemRows(11)) \X (0..4))

\* The rows extrair_dados_csv takes the length of (len(linhas[i])).
LinhasCsv == (2..6) \cup {10, 11, 13} \cup (3..15)

extrair_dados_csv(ls) ==
    IF \/ \E rc \in LeiturasCsv : ~Exists(ls, rc[1], rc[2])
       \/ \E r \in LinhasCsv : r >= NRows(ls)
    THEN IndexError
    ELSE [titulo          |-> Strip(Cel(ls, 0, 0)),
          peso_teorico    |-> ExtrairSecao(ls, 1, 3, 7),
          peso_real       |-> ExtrairSecao(ls, 9, 11, 15),
          ops             |-> ExtrairOpsCsv(ls),
          ops_total       |-> [kgs        |-> CelNum(ls, 6, 7),
                               pecas      |-> CelNum(ls, 6, 8),
                               peso_medio |-> CelNum(ls, 6, 9)],
          resumo          |-> [kgs_coletados  |-> CelNum(ls, 10, 7),
                               kgs_consumidos |-> CelNum(ls, 11, 7),
                               saldo_devedor  |-> CelNum(ls, 13, 7)],
          gramatura       |-> ExtrairGramaturaCsv(ls),
          gramatura_media |-> [largura     |-> CelMedia(ls, 12),
                               comprimento |-> CelMedia(ls, 13),
                               peso        |-> CelMedia(ls, 14)]]

\* The analyser reads the OP, summary and average cells without a length
\* test, and the measurements of every gauge row whose label starts with "#".
ExtrairOps(ls) ==
    LET entry(i) ==
            LET op == Strip(Cel(ls, i, 6))
            IN  IF op # <<>> /\ op # Txt_TOTAL
                THEN <<[op |-> op, kgs |-> parse_numero(Cel(ls, i, 7)),
                        pecas |-> parse_numero(Cel(ls, i, 8))]>>
                ELSE <<>>
    IN  SeqOfRows(2, 6, entry)

IsManta(ls, i) ==
    LET manta == CelTxt(ls, i, 11) IN manta # <<>> /\ manta[1] = "#"

ExtrairGramatura(ls) ==
    LET entry(i) ==
            IF IsManta(ls, i)
            THEN <<[manta       |-> CelTxt(ls, i, 11),
                    largura     |-> parse_numero(Cel(ls, i, 12)),
                    comprimento |-> parse_numero(Cel(ls, i, 13)),
                    peso        |-> parse_numero(Cel(ls, i, 14))]>>
            ELSE <<>>
    IN  SeqOfRows(3, 15, entry)

LeiturasAnalise ==
    LeiturasCsv \cup ((2..6) \X {6, 7, 8}) \cup {<<6, 9>>}
        \cup {<<10, 7>>, <<11, 7>>, <<13, 7>>}
        \cup ({17} \X {12, 13, 14})

extrair_dados(ls) ==
    IF \/ \E rc \in LeiturasAnalise : ~Exists(ls, rc[1], rc[2])
       \/ \E r \in 3..15 : r >= NRows(ls)
       \/ \E r \in 3..15 : IsManta(ls, r) /\ RowLen(ls, r) <= 14
    THEN IndexError
    ELSE [titulo          |-> Strip(Cel(ls, 0, 0)),
          peso_teorico    |-> ExtrairSecao(ls, 1, 3, 7),
          peso_real       |-> ExtrairSecao(ls, 9, 11, 15),
          ops             |-> ExtrairOps(ls),
          ops_total       |-> [kgs        |-> parse_numero(Cel(ls, 6, 7)),
                               pecas      |-> parse_numero(Cel(ls, 6, 8)),
                               peso_medio |-> parse_numero(Cel(ls, 6, 9))],
          resumo          |-> [kgs_coletados  |-> parse_numero(Cel(ls, 10, 7)),
                               kgs_consumidos |-> parse_numero(Cel(ls, 11, 7)),
                               saldo_devedor  |-> parse_numero(Cel(ls, 13, 7))],
          gramatura       |-> ExtrairGramatura(ls),
          gramatura_media |-> [largura     |-> parse_numero(Cel(ls, 17, 12)),
                               comprimento |-> parse_numero(Cel(ls, 17, 13)),
                               peso        |-> parse_numero(Cel(ls, 17, 14))]]

-----------------------------------------------------------------------------
(* The handlers of AppFechamentoContainer *)

Nenhum == [nenhum |-> TRUE]
IsNenhum(x) == "nenhum" \in DOMAIN x

\* The four passes with the summary taken before the section totals.
CalcularResumoPrimeiro(d) ==
    _calcular_percentuais(_calcular_total_kgs(
        _calcular_media_gramatura(_calcular_resumo(d))))

\* The four passes in the order gerar_dashboard calls them.
Calcular(d) ==
    _calcular_percentuais(_calcular_resumo(
        _calcular_media_gramatura(_calcular_total_kgs(d))))

PassosCalculo ==
    <<"_calcular_total_kgs", "_calcular_media_gramatura",
      "_calcular_resumo", "_calcular_percentuais">>

\* Idle state of the event loop between two handlers.
Ocioso == "ocioso"

\* Texts the operator types into an entry.
TextosDigitados ==
    { <<"1">>, <<"O", "P", "1">> }

\* Bounds of the form program's state space: typing steps, operator actions,
\* rows added beyond the defaults, and the rows of a list (items, OPs, gauge
\* entries) the operator types into.
MaxDigitacoes == 1
MaxPassos == 3
MaxExtra == 1
MaxLinhaDigitada == 1

\* The entries of the form the operator may type into.
Campos(f) ==
    {<<"titulo">>, <<"pt_unit">>, <<"pr_unit">>}
        \cup ({"pt_items", "pr_items"} \X {i \in 1..3 : i <= MaxLinhaDigitada}
                 \X {"nome", "pecas", "kgs", "peso_unit"})
        \cup ({"op_rows"} \X {i \in 1..Len(f.op_rows) : i <= MaxLinhaDigitada}
                 \X {"op", "kgs", "pecas"})
        \cup ({"manta_rows"} \X {i \in 1..Len(f.manta_rows) : i <= MaxLinhaDigitada}
                 \X {"manta", "largura", "comprimento", "peso"})

\* The form with text t in entry c.
ComTexto(f, c, t) ==
    IF Len(c) = 1 THEN [f EXCEPT ![c[1]] = t]
    ELSE [f EXCEPT ![c[1]][c[2]][c[3]] = t]

TextoDe(f, c) == IF Len(c) = 1 THEN f[c[1]] ELSE f[c[1]][c[2]][c[3]]

adicionar_op(f) == [f EXCEPT !.op_rows = Append(@, OpRowNova)]

\* The removal of the first row instead of the last.
RemoverPrimeiraOp(f) ==
    IF f.op_rows # <<>> THEN [f EXCEPT !.op_rows = Tail(@)] ELSE f

remover_op(f) ==
    IF f.op_rows # <<>>
    THEN [f EXCEPT !.op_rows = SubSeq(@, 1, Len(@) - 1)] ELSE f

adicionar_manta(f) ==
    [f EXCEPT !.manta_rows = Append(@, MantaRowNova(Len(@)))]

remover_manta(f) ==
    IF f.manta_rows # <<>>
    THEN [f EXCEPT !.manta_rows = SubSeq(@, 1, Len(@) - 1)] ELSE f

\* limpar_tudo deletes the title, the unit weights and the numeric entries of
\* the items; names and the row lists are left as they are.
LimparItens(rows) ==
    [i \in 1..Len(rows) |->
        [rows[i] EXCEPT !.pecas = <<>>, !.kgs = <<>>, !.peso_unit = <<>>]]

limpar_tudo(f) ==
    [f EXCEPT !.titulo = <<>>, !.pt_unit = <<>>, !.pr_unit = <<>>,
              !.pt_items = LimparItens(@), !.pr_items = LimparItens(@)]

\* set_entry without the replace(".", ","): the decimal point stays.
SetEntryComPonto(valor, dec) ==
    IF valor = None THEN <<>>
    ELSE FmtFixed(Num(valor), Den(valor), dec, FALSE, ".", ".")

\* set_entry: fmt.format(valor).replace(".", ","), nothing for None.
set_entry(valor, dec) ==
    IF valor = None THEN <<>>
    ELSE FmtFixed(Num(valor), Den(valor), dec, FALSE, ",", ".")

PreencherItens(rows, itens) ==
    [i \in 1..Len(rows) |->
        IF i <= Len(itens)
        THEN [nome      |-> itens[i].nome,
              pecas     |-> set_entry(itens[i].pecas, 0),
              kgs       |-> set_entry(itens[i].kgs, 4),
              peso_unit |-> set_entry(itens[i].peso_unit, 6)]
        ELSE rows[i]]

\* The fill that adds the loaded rows after the rows the form already has.
PreencherSemRemover(f, d) ==
    LET limpo == limpar_tudo(f)
    IN  [titulo     |-> d.titulo,
         pt_unit    |-> set_entry(d.peso_teorico.peso_unitario, 4),
         pr_unit    |-> set_entry(d.peso_real.peso_unitario, 4),
         pt_items   |-> PreencherItens(limpo.pt_items, d.peso_teorico.itens),
         pr_items   |-> PreencherItens(limpo.pr_items, d.peso_real.itens),
         op_rows    |-> f.op_rows \o
                        [i \in 1..Len(d.ops) |->
                            [op    |-> d.ops[i].op,
                             kgs   |-> set_entry(d.ops[i].kgs, 1),
                             pecas |-> set_entry(d.ops[i].pecas, 0)]],
         manta_rows |-> f.manta_rows \o
                        [i \in 1..Len(d.gramatura) |->
                            [manta       |-> d.gramatura[i].manta,
                             largura     |-> set_entry(d.gramatura[i].largura, 2),
                             comprimento |-> set_entry(d.gramatura[i].comprimento, 2),
                             peso        |-> set_entry(d.gramatura[i].peso, 3)]]]

preencher_formulario(f, d) ==
    LET limpo == limpar_tudo(f)
    IN  [titulo     |-> d.titulo,
         pt_unit    |-> set_entry(d.peso_teorico.peso_unitario, 4),
         pr_unit    |-> set_entry(d.peso_real.peso_unitario, 4),
         pt_items   |-> PreencherItens(limpo.pt_items, d.peso_teorico.itens),
         pr_items   |-> PreencherItens(limpo.pr_items, d.peso_real.itens),
         op_rows    |-> [i \in 1..Len(d.ops) |->
                            [op    |-> d.ops[i].op,
                             kgs   |-> set_entry(d.ops[i].kgs, 1),
                             pecas |-> set_entry(d.ops[i].pecas, 0)]],
         manta_rows |-> [i \in 1..Len(d.gramatura) |->
                            [manta       |-> d.gramatura[i].manta,
                             largura     |-> set_entry(d.gramatura[i].largura, 2),
                             comprimento |-> set_entry(d.gramatura[i].comprimento, 2),
                             peso        |-> set_entry(d.gramatura[i].peso, 3)]]]

\* gerar_html subtracts the unit weights and the section totals before it
\* renders anything, and divides kgs_consumidos by a truthy kgs_coletados:
\* a None among them raises TypeError.
GerarHtmlFalha(d) ==
    \/ d.peso_real.peso_unitario = None \/ d.peso_teorico.peso_unitario = None
    \/ d.peso_real.total_kgs = None \/ d.peso_teorico.total_kgs = None
    \/ Truthy(d.resumo.kgs_coletados) /\ d.resumo.kgs_consumidos = None

TypeError == [erro |-> "TypeError"]

\* The cells of one section table of the report.
SecaoHtml(sec) ==
    [peso_unitario |-> fmt_numero(sec.peso_unitario, 4),
     itens         |-> [i \in 1..Len(sec.itens) |->
                           [nome |-> sec.itens[i].nome,
                            kgs  |-> fmt_numero(sec.itens[i].kgs, 2),
                            pct  |-> fmt_pct(sec.itens[i].pct)]],
     total_kgs     |-> fmt_numero(sec.total_kgs, 2),
     total_pct     |-> fmt_pct(sec.total_pct)]

\* gerar_html: TypeError, or the texts the report shows for the sections,
\* the summary and the gauge averages.
gerar_html(d) ==
    IF GerarHtmlFalha(d) THEN TypeError
    ELSE [titulo          |-> d.titulo,
          peso_teorico    |-> SecaoHtml(d.peso_teorico),
          peso_real       |-> SecaoHtml(d.peso_real),
          resumo          |->
              [kgs_coletados  |-> fmt_numero(d.resumo.kgs_coletados, 2),
               kgs_consumidos |-> fmt_numero(d.resumo.kgs_consumidos, 2),
               saldo_devedor  |-> fmt_numero(d.resumo.saldo_devedor, 2)],
          gramatura_media |->
              [largura     |-> fmt_numero(d.gramatura_media.largura, 4),
               comprimento |-> fmt_numero(d.gramatura_media.comprimento, 2),
               peso        |-> fmt_numero(d.gramatura_media.peso, 3)]]

\* The validation without its test of the gauge entries.
ValidacaoSemGramatura(d) ==
    IF d.titulo = <<>> THEN "titulo"
    ELSE IF d.ops = <<>> THEN "ops"
    ELSE ""

\* The validation of gerar_dashboard: the warning shown, or "" for none.
Validacao(d) ==
    IF d.titulo = <<>> THEN "titulo"
    ELSE IF d.ops = <<>> THEN "ops"
    ELSE IF d.gramatura = <<>> THEN "gramatura"
    ELSE ""

-----------------------------------------------------------------------------
(* The form program as a state machine: one action per handler *)

\* A form filled in by hand, and the CSV files the operator can pick.
FormExemplo ==
    [FormInicial EXCEPT
        !.titulo = <<"L", "O", "T", "E", " ", "7">>,
        !.pt_unit = <<"0", ",", "6", "4", "4", "7">>,
        !.pt_items[1].kgs = <<"1", "2", "0", ",", "5", "0">>,
        !.pt_items[2].kgs = <<"3", "0", ",", "0", "0">>,
        !.pt_items[3].kgs = <<"5", ",", "2", "5">>,
        !.op_rows[1] = [op |-> <<"O", "P", "1">>, kgs |-> <<"1", ".", "0", "0", "0", ",", "0">>, pecas |-> <<"1", "5", "0", "0">>],
        !.manta_rows[1].peso = <<"0", ",", "6", "4", "0">>,
        !.manta_rows[2].peso = <<"0", ",", "6", "5", "5">>,
        !.manta_rows[3].peso = <<"-">>]

ArquivoExemplo == gerar_csv(Calcular(coletar_dados(FormExemplo)))
ArquivoCurto == <<"x", ";", "y", "\n">>

\* The example without any gauge row.
ArquivoSemMantas ==
    gerar_csv(Calcular(coletar_dados([FormExemplo EXCEPT !.manta_rows = <<>>])))

\* The example with an empty title cell, an OP mass of two decimals and an
\* item mass of 0.
ArquivoSemTitulo ==
    JoinLinhas([ler_csv(ArquivoExemplo) EXCEPT
                   ![1][1] = <<>>,
                   ![3][8] = <<"1", "0", ",", "2", "5">>,
                   ![5][3] = <<"0">>])

Arquivos == {ArquivoExemplo, ArquivoCurto, ArquivoSemMantas, ArquivoSemTitulo}

Init ==
    /\ html = Nenhum
    /\ cod_texto = <<>>
    /\ cod_casas = 0
    /\ cod_valor = None
    /\ cod_saida = <<>>
    /\ form = FormInicial
    /\ dados = Nenhum
    /\ log = <<>>
    /\ arquivo = <<>>
    /\ linhas = <<>>
    /\ extraido = Nenhum
    /\ msg = ""
    /\ ndig = 0
    /\ passos = 0
    /\ pc = Ocioso

\* One more operator action, within the bound.
Passo == passos < MaxPassos /\ passos' = passos + 1

\* The operator types text t into entry c.
Digitar(c, t) ==
    /\ pc = Ocioso
    /\ Passo
    /\ ndig < MaxDigitacoes
    /\ form' = ComTexto(form, c, t)
    /\ ndig' = ndig + 1
    /\ UNCHANGED <<html, codec, dados, log, arquivo, linhas, extraido, msg, pc>>

AdicionarOp ==
    /\ pc = Ocioso
    /\ Passo
    /\ Len(form.op_rows) < OpsDefault + MaxExtra
    /\ form' = adicionar_op(form)
    /\ log' = <<"adicionar_op">>
    /\ UNCHANGED <<html, codec, dados, arquivo, linhas, extraido, msg, ndig, pc>>

RemoverOp ==
    /\ pc = Ocioso
    /\ Passo
    /\ form' = remover_op(form)
    /\ log' = <<"remover_op">>
    /\ UNCHANGED <<html, codec, dados, arquivo, linhas, extraido, msg, ndig, pc>>

AdicionarManta ==
    /\ pc = Ocioso
    /\ Passo
    /\ Len(form.manta_rows) < MantasDefault + MaxExtra
    /\ form' = adicionar_manta(form)
    /\ log' = <<"adicionar_manta">>
    /\ UNCHANGED <<html, codec, dados, arquivo, linhas, extraido, msg, ndig, pc>>

RemoverManta ==
    /\ pc = Ocioso
    /\ Passo
    /\ form' = remover_manta(form)
    /\ log' = <<"remover_manta">>
    /\ UNCHANGED <<html, codec, dados, arquivo, linhas, extraido, msg, ndig, pc>>

LimparTudo ==
    /\ pc = Ocioso
    /\ Passo
    /\ form' = limpar_tudo(form)
    /\ log' = <<"limpar_tudo">>
    /\ UNCHANGED <<html, codec, dados, arquivo, linhas, extraido, msg, ndig, pc>>

\* carregar_csv with the form cleared before the file is read.
CarregarCsvLimpando(texto, legivel) ==
    /\ pc = Ocioso
    /\ Passo
    /\ IF ~legivel
       THEN /\ log' = <<"ler_csv">>
            /\ msg' = "erro"
            /\ form' = limpar_tudo(form)
            /\ UNCHANGED <<linhas, extraido>>
       ELSE LET ls == ler_csv(texto)
                d  == extrair_dados_csv(ls)
            IN  /\ linhas' = ls
                /\ extraido' = d
                /\ IF IsErro(d)
                   THEN /\ log' = <<"ler_csv", "extrair_dados_csv">>
                        /\ msg' = "erro"
                        /\ form' = limpar_tudo(form)
                   ELSE /\ log' = <<"ler_csv", "extrair_dados_csv",
                                    "preencher_formulario">>
                        /\ msg' = "info"
                        /\ form' = preencher_formulario(form, d)
    /\ UNCHANGED <<html, codec, dados, arquivo, ndig, pc>>

\* carregar_csv on a file with the given text (legivel: open() succeeds).
CarregarCsv(texto, legivel) ==
    /\ pc = Ocioso
    /\ Passo
    /\ IF ~legivel
       THEN /\ log' = <<"ler_csv">>
            /\ msg' = "erro"
            /\ UNCHANGED <<form, linhas, extraido>>
       ELSE LET ls == ler_csv(texto)
                d  == extrair_dados_csv(ls)
            IN  /\ linhas' = ls
                /\ extraido' = d
                /\ IF IsErro(d)
                   THEN /\ log' = <<"ler_csv", "extrair_dados_csv">>
                        /\ msg' = "erro"
                        /\ UNCHANGED form
                   ELSE /\ log' = <<"ler_csv", "extrair_dados_csv",
                                    "preencher_formulario">>
                        /\ msg' = "info"
                        /\ form' = preencher_formulario(form, d)
    /\ UNCHANGED <<html, codec, dados, arquivo, ndig, pc>>

\* salvar_csv (gravavel: the file can be written).
SalvarCsv(gravavel) ==
    /\ pc = Ocioso
    /\ Passo
    /\ dados' = coletar_dados(form)
    /\ log' = <<"coletar_dados", "gerar_csv">>
    /\ IF gravavel
       THEN arquivo' = gerar_csv(dados') /\ msg' = "info"
       ELSE msg' = "erro" /\ UNCHANGED arquivo
    /\ UNCHANGED <<html, codec, form, linhas, extraido, ndig, pc>>

\* gerar_dashboard (gravavel: the HTML file can be written).
GerarDashboard(gravavel) ==
    /\ pc = Ocioso
    /\ Passo
    /\ dados' = Calcular(coletar_dados(form))
    /\ IF Validacao(dados') # ""
       THEN /\ log' = <<"coletar_dados">> \o PassosCalculo
            /\ msg' = "aviso"
            /\ UNCHANGED html
       ELSE IF IsErro(gerar_html(dados')) \/ ~gravavel
       THEN /\ log' = <<"coletar_dados">> \o PassosCalculo \o <<"gerar_html">>
            /\ msg' = "erro"
            /\ UNCHANGED html
       ELSE /\ log' = <<"coletar_dados">> \o PassosCalculo
                         \o <<"gerar_html", "f.write", "webbrowser.open">>
            /\ msg' = "info"
            /\ html' = gerar_html(dados')
    /\ UNCHANGED <<codec, form, arquivo, linhas, extraido, ndig, pc>>

Next ==
    \/ \E c \in Campos(form), t \in TextosDigitados : Digitar(c, t)
    \/ AdicionarOp
    \/ RemoverOp
    \/ AdicionarManta
    \/ RemoverManta
    \/ LimparTudo
    \/ \E texto \in Arquivos \cup {arquivo} : CarregarCsv(texto, TRUE)
    \/ CarregarCsv(<<>>, FALSE)
    \/ \E gravavel \in BOOLEAN : SalvarCsv(gravavel)
    \/ \E gravavel \in BOOLEAN : GerarDashboard(gravavel)

Spec == Init /\ [][Next]_vars

-----------------------------------------------------------------------------
(* The two row lists under additions and removals alone *)

\* The start-up form with the ids OP1, OP2, ... typed into its OP rows, after
\* the removal of some of its rows.
FormLinhas(nops, nmantas) ==
    [FormInicial EXCEPT
        !.op_rows = [k \in 1..nops |->
                        [OpRowNova EXCEPT !.op = <<"O", "P">> \o IntDigits(k)]],
        !.manta_rows = SubSeq(@, 1, nmantas)]

InitLinhas ==
    /\ html = Nenhum
    /\ cod_texto = <<>>
    /\ cod_casas = 0
    /\ cod_valor = None
    /\ cod_saida = <<>>
    /\ \E nops \in 0..OpsDefault :
       \E nmantas \in {0, 1, MantasDefault - 1, MantasDefault} :
           form = FormLinhas(nops, nmantas)
    /\ dados = Nenhum
    /\ log = <<>>
    /\ arquivo = <<>>
    /\ linhas = <<>>
    /\ extraido = Nenhum
    /\ msg = ""
    /\ ndig = 0
    /\ passos = 0
    /\ pc = Ocioso

NextLinhas ==
    \/ AdicionarOp
    \/ RemoverOp
    \/ AdicionarManta
    \/ RemoverManta

SpecLinhas == InitLinhas /\ [][NextLinhas]_vars

-----------------------------------------------------------------------------
(* The calculator pass by pass, on records collected from bounded forms *)

\* Texts typed into the mass entries of the items and of the OP rows, into
\* the OP name and into the gauge entries.
KgsTeorico ==
    { <<>>,
      <<"0">>,
      <<"1">>,
      <<"0", ",", "0", "0", "1">>,
      <<"0", ",", "0", "1">> }
KgsReal1 ==
    { <<>>,
      <<"1">> }
KgsReal3 ==
    { <<>>,
      <<"0", ",", "0", "0", "4">> }
NomesOp ==
    { <<>>,
      <<"O", "P", "1">> }
KgsOp1 ==
    { <<>>,
      <<"3">>,
      <<"0", ",", "1", "2", "5">>,
      <<"1", ".", "0", "0", "0", ",", "0">>,
      <<"-", "2">> }
KgsOp2 ==
    { <<>>,
      <<"0", ",", "0", "1">> }
Larguras ==
    { <<>>,
      <<"0">>,
      <<"1", ",", "5">> }
Comprimentos ==
    { <<>>,
      <<"1", "0", ",", "2", "5">> }
Pesos1 ==
    { <<>>,
      <<"0", ",", "6", "4", "0">> }
Pesos2 ==
    { <<>>,
      <<"0", ",", "6", "5", "5">> }
Pesos3 ==
    { <<"-">>,
      <<"0", ",", "7">> }
Mantas2 ==
    { <<>>,
      <<"#", "2">> }

FormKgs(a, b, c, r1, r3, opn, k1, k2) ==
    [FormInicial EXCEPT
        !.pt_items[1].kgs = a, !.pt_items[2].kgs = b, !.pt_items[3].kgs = c,
        !.pr_items[1].kgs = r1, !.pr_items[3].kgs = r3,
        !.op_rows[1].op = opn, !.op_rows[1].kgs = k1,
        !.op_rows[2].op = <<"O", "P", "2">>, !.op_rows[2].kgs = k2]

PecasOp1 ==
    { <<>>,
      <<"0">>,
      <<"4">>,
      <<"-", "2">> }
PecasOp2 ==
    { <<>>,
      <<"2">> }

FormOps(opn, k1, p1, k2, p2) ==
    [FormInicial EXCEPT
        !.op_rows[1].op = opn, !.op_rows[1].kgs = k1, !.op_rows[1].pecas = p1,
        !.op_rows[2].op = <<"O", "P", "2">>, !.op_rows[2].kgs = k2,
        !.op_rows[2].pecas = p2]

FormGram(m2, l1, l2, c1, p1, p2, p3) ==
    [FormInicial EXCEPT
        !.manta_rows[1].largura = l1, !.manta_rows[1].comprimento = c1,
        !.manta_rows[1].peso = p1,
        !.manta_rows[2].manta = m2, !.manta_rows[2].largura = l2,
        !.manta_rows[2].peso = p2,
        !.manta_rows[3].peso = p3]

FormsCalc ==
    {FormKgs(a, b, c, r1, r3, opn, k1, k2) :
        a \in KgsTeorico, b \in KgsTeorico, c \in KgsTeorico,
        r1 \in KgsReal1, r3 \in KgsReal3, opn \in NomesOp,
        k1 \in KgsOp1, k2 \in KgsOp2}
    \cup
    {FormGram(m2, l1, l2, c1, p1, p2, p3) :
        m2 \in Mantas2, l1 \in Larguras, l2 \in Larguras, c1 \in Comprimentos,
        p1 \in Pesos1, p2 \in Pesos2, p3 \in Pesos3}
    \cup
    {FormOps(opn, k1, p1, k2, p2) :
        opn \in NomesOp, k1 \in KgsOp1, p1 \in PecasOp1,
        k2 \in KgsOp2, p2 \in PecasOp2}

InitCalc ==
    /\ html = Nenhum
    /\ cod_texto = <<>>
    /\ cod_casas = 0
    /\ cod_valor = None
    /\ cod_saida = <<>>
    /\ form \in FormsCalc
    /\ dados = coletar_dados(form)
    /\ log = <<"coletar_dados">>
    /\ arquivo = <<>>
    /\ linhas = <<>>
    /\ extraido = Nenhum
    /\ msg = ""
    /\ ndig = 0
    /\ passos = 0
    /\ pc = "coletado"

\* One pass: pc moves from de to para and the pass is logged.
Passe(de, para, nome, d) ==
    /\ pc = de
    /\ dados' = d
    /\ log' = Append(log, nome)
    /\ pc' = para
    /\ UNCHANGED <<html, codec, form, arquivo, linhas, extraido, msg, ndig, passos>>

CalcularTotalKgs ==
    Passe("coletado", "total_kgs", PassosCalculo[1], _calcular_total_kgs(dados))

CalcularMediaGramatura ==
    Passe("total_kgs", "media", PassosCalculo[2], _calcular_media_gramatura(dados))

CalcularResumo ==
    Passe("media", "resumo", PassosCalculo[3], _calcular_resumo(dados))

CalcularPercentuais ==
    Passe("resumo", "calculado", PassosCalculo[4], _calcular_percentuais(dados))

\* The four passes applied once more to a record they already ran on.
Recalcular ==
    /\ pc = "calculado"
    /\ dados' = Calcular(dados)
    /\ log' = log \o PassosCalculo
    /\ pc' = "recalculado"
    /\ UNCHANGED <<html, codec, form, arquivo, linhas, extraido, msg, ndig, passos>>

NextCalc ==
    \/ CalcularTotalKgs
    \/ CalcularMediaGramatura
    \/ CalcularResumo
    \/ CalcularPercentuais
    \/ Recalcular

SpecCalc == InitCalc /\ [][NextCalc]_vars

-----------------------------------------------------------------------------
(* The calculator on records that already carry computed values *)

\* Values left in a computed field by an earlier computation.
Obsoletos == {None, Some(0), Some(777 * Unit)}

SujarSecao(sec, t, p) ==
    [sec EXCEPT !.total_kgs = t,
                !.total_pct = p,
                !.itens = [i \in 1..Len(sec.itens) |->
                              [sec.itens[i] EXCEPT !.pct = p]]]

\* The record d with every computed field replaced: t in the section
\* totals, p in the percents, r in the summary and g in the gauge averages.
Sujar(d, t, p, r, g) ==
    [d EXCEPT !.peso_teorico = SujarSecao(d.peso_teorico, t, p),
              !.peso_real = SujarSecao(d.peso_real, t, p),
              !.resumo = [kgs_coletados |-> r, kgs_consumidos |-> r,
                          saldo_devedor |-> r],
              !.gramatura_media = [largura |-> g, comprimento |-> g,
                                   peso |-> g]]

FormsObsoleto ==
    {FormKgs(a, <<"0", ",", "0", "0", "1">>, <<"0", ",", "0", "1">>,
             <<"1">>, <<>>, <<"O", "P", "1">>, k1, <<>>) :
        a \in {<<>>, <<"1">>}, k1 \in {<<>>, <<"3">>}}
    \cup
    {FormGram(<<"#", "2">>, l1, <<"1", ",", "5">>, <<"1", "0", ",", "2", "5">>,
              <<>>, <<"0", ",", "6", "5", "5">>, <<"0", ",", "7">>) :
        l1 \in {<<>>, <<"0">>}}

InitObsoleto ==
    /\ html = Nenhum
    /\ cod_texto = <<>>
    /\ cod_casas = 0
    /\ cod_valor = None
    /\ cod_saida = <<>>
    /\ form \in FormsObsoleto
    /\ \E t \in Obsoletos, p \in Obsoletos, r \in Obsoletos, g \in Obsoletos :
           dados = Sujar(coletar_dados(form), t, p, r, g)
    /\ log = <<"coletar_dados">>
    /\ arquivo = <<>>
    /\ linhas = <<>>
    /\ extraido = Nenhum
    /\ msg = ""
    /\ ndig = 0
    /\ passos = 0
    /\ pc = "coletado"

SpecObsoleto == InitObsoleto /\ [][NextCalc]_vars

-----------------------------------------------------------------------------
(* Writer, reader and extractors as a flow over bounded records and grids *)

Titulos ==
    { <<"L", "O", "T", "E", " ", "7">>,
      <<"A", ";", "B">>,
      <<>> }
Unitarios ==
    { <<"0", ",", "6", "4", "4", "7">>,
      <<"0">> }
PecasItem ==
    { <<"1", "5", "0", "0">>,
      <<"0">> }
KgsItem ==
    { <<"1", "2", "0", ",", "5", "0">>,
      <<"0">> }
UnitItem ==
    { <<"0", ",", "0", "8", "0", "3", "3", "3">>,
      <<>> }
KgsOpCsv ==
    { <<"1", ".", "0", "0", "0", ",", "0">>,
      <<"1", "0", ",", "2", "5">>,
      <<"0">> }
PecasOpCsv ==
    { <<"1", "5", "0", "0">>,
      <<"0">> }
LargurasCsv ==
    { <<"1", ",", "5", "0">>,
      <<"0">> }

FormCsv(t, u, p, k, pu, ok, op, l) ==
    [FormExemplo EXCEPT
        !.titulo = t, !.pt_unit = u, !.pr_unit = u,
        !.pt_items[1].pecas = p, !.pt_items[1].kgs = k,
        !.pt_items[1].peso_unit = pu,
        !.pr_items[2].pecas = p, !.pr_items[2].kgs = k,
        !.op_rows[1].kgs = ok, !.op_rows[1].pecas = op,
        !.op_rows[2] = [op |-> <<"O", "P", "2">>, kgs |-> ok, pecas |-> op],
        !.manta_rows[1].largura = l, !.manta_rows[13].largura = l]

FormsCsv ==
    {FormCsv(t, u, p, k, pu, ok, op, l) :
        t \in Titulos, u \in Unitarios, p \in PecasItem, k \in KgsItem,
        pu \in UnitItem, ok \in KgsOpCsv, op \in PecasOpCsv, l \in LargurasCsv}

\* Forms with n OP rows and m gauge rows: plain ids, a first id that begins
\* with a quote, or an item name that holds the delimiter.
IdsOp == << <<"A">>, <<"B">>, <<"C">>, <<"D">>, <<"E">>, <<"F">> >>

NumerosOp == 0..Len(IdsOp)

NumerosManta == {0, 1, 13, 14, 15}

FormCapacidade(nops, nmantas, id1, nome1) ==
    [FormExemplo EXCEPT
        !.pt_items[1].nome = nome1,
        !.op_rows = [i \in 1..nops |->
                        [op    |-> IF i = 1 THEN id1 ELSE IdsOp[i],
                         kgs   |-> <<"1", ",", "0">>,
                         pecas |-> <<"2">>]],
        !.manta_rows = [i \in 1..nmantas |->
                           [MantaRowNova(i - 1) EXCEPT
                               !.largura = <<"1", ",", "5", "0">>]]]

FormsCapacidade ==
    {FormCapacidade(nops, nmantas, IdsOp[1], NomesDefault[1]) :
        nops \in NumerosOp, nmantas \in NumerosManta}
    \cup
    {FormCapacidade(nops, nmantas, <<"\"", "A">>, NomesDefault[1]) :
        nops \in NumerosOp, nmantas \in NumerosManta}
    \cup
    {FormCapacidade(nops, nmantas, IdsOp[1], <<"X", ";", "Y">>) :
        nops \in NumerosOp, nmantas \in NumerosManta}

\* A well-formed grid, cut to its first k rows or with row r cut to c cells.
GradeExemplo == ler_csv(ArquivoExemplo)

Cortada(k) == SubSeq(GradeExemplo, 1, k)
Irregular(r, c) ==
    [GradeExemplo EXCEPT ![r + 1] = SubSeq(GradeExemplo[r + 1], 1, c)]

\* Rows and cells of the fixed layout.
NLinhas == 18
NColunas == 15

\* Grids with other cells in the OP column of rows 3 to 6 and in the label
\* column of the gauge rows 3, 9 and 15.
RotulosOp ==
    { <<>>,
      <<" ", "O", "P", "9", " ">>,
      <<"T", "O", "T", "A", "L">> }
RotulosManta ==
    { <<>>,
      <<"#", "7">>,
      <<"M", "7">>,
      <<" ", "#", "8", " ">> }

GradeOps(a, b, c, e) ==
    [GradeExemplo EXCEPT ![4][7] = a,
                         ![5][7] = b, ![5][8] = <<"7", ",", "5">>,
                         ![5][9] = <<"3">>,
                         ![6][7] = c, ![7][7] = e]

GradeMantas(a, b, c) ==
    [GradeExemplo EXCEPT ![4][12] = a,
                         ![10][12] = b, ![10][14] = <<"1", ",", "5", "0">>,
                         ![16][12] = c, ![16][15] = <<"0", ",", "7", "0", "0">>]

GradesCortadas ==
    {Cortada(k) : k \in 0..NLinhas}
    \cup {Append(GradeExemplo, <<>>)}
    \cup {Irregular(r, c) : r \in 0..(NLinhas - 1), c \in 0..(NColunas - 1)}

Grades ==
    GradesCortadas
    \cup {GradeOps(a, b, c, e) : a \in RotulosOp, b \in RotulosOp,
                                 c \in RotulosOp, e \in RotulosOp}
    \cup {GradeMantas(a, b, c) : a \in RotulosManta, b \in RotulosManta,
                                 c \in RotulosManta}

InitCsv ==
    /\ html = Nenhum
    /\ cod_texto = <<>>
    /\ cod_casas = 0
    /\ cod_valor = None
    /\ cod_saida = <<>>
    /\ form = FormInicial
    /\ log = <<>>
    /\ arquivo = <<>>
    /\ extraido = Nenhum
    /\ msg = ""
    /\ ndig = 0
    /\ passos = 0
    /\ \/ /\ \E f \in FormsCsv \cup FormsCapacidade : dados = coletar_dados(f)
          /\ linhas = <<>>
          /\ pc = "registro"
       \/ /\ dados = Nenhum
          /\ linhas \in Grades
          /\ pc = "lido"

GerarCsv ==
    /\ pc = "registro"
    /\ arquivo' = gerar_csv(dados)
    /\ log' = Append(log, "gerar_csv")
    /\ pc' = "escrito"
    /\ UNCHANGED <<html, codec, form, dados, linhas, extraido, msg, ndig, passos>>

LerCsv ==
    /\ pc = "escrito"
    /\ linhas' = ler_csv(arquivo)
    /\ log' = Append(log, "ler_csv")
    /\ pc' = "lido"
    /\ UNCHANGED <<html, codec, form, dados, arquivo, extraido, msg, ndig, passos>>

\* extrair_dados_csv of the form program.
ExtrairDadosCsv ==
    /\ pc = "lido"
    /\ extraido' = extrair_dados_csv(linhas)
    /\ log' = Append(log, "extrair_dados_csv")
    /\ pc' = "extraido"
    /\ UNCHANGED <<html, codec, form, dados, arquivo, linhas, msg, ndig, passos>>

\* extrair_dados of the analyser.
ExtrairDados ==
    /\ pc = "lido"
    /\ extraido' = extrair_dados(linhas)
    /\ log' = Append(log, "extrair_dados")
    /\ pc' = "extraido"
    /\ UNCHANGED <<html, codec, form, dados, arquivo, linhas, msg, ndig, passos>>

NextCsv ==
    \/ GerarCsv
    \/ LerCsv
    \/ ExtrairDadosCsv
    \/ ExtrairDados

SpecCsv == InitCsv /\ [][NextCsv]_vars

-----------------------------------------------------------------------------
(* main of the analyser, step by step, on bounded CSV files *)

\* A file whose first theoretical percent was edited by hand, and the file
\* salvar_csv writes for the example form.
GradeAdulterada ==
    [GradeExemplo EXCEPT ![4][5] = <<"9", "9", ",", "0", "0", "%">>]
GradeSalva == ler_csv(gerar_csv(coletar_dados(FormExemplo)))

\* A file whose real unit weight cell is empty.
GradeSemUnitario == [GradeExemplo EXCEPT ![10][5] = <<>>]

ArquivosAnalise ==
    {JoinLinhas(g) :
        g \in GradesCortadas
              \cup {GradeAdulterada, GradeSalva, GradeSemUnitario}}

InitAnalise ==
    /\ html = Nenhum
    /\ cod_texto = <<>>
    /\ cod_casas = 0
    /\ cod_valor = None
    /\ cod_saida = <<>>
    /\ form = FormInicial
    /\ dados = Nenhum
    /\ log = <<>>
    /\ arquivo \in ArquivosAnalise
    /\ linhas = <<>>
    /\ extraido = Nenhum
    /\ msg = ""
    /\ ndig = 0
    /\ passos = 0
    /\ pc = "main"

\* linhas = ler_csv(ARQUIVO_CSV)
AnaliseLerCsv ==
    /\ pc = "main"
    /\ linhas' = ler_csv(arquivo)
    /\ log' = Append(log, "ler_csv")
    /\ pc' = "lido"
    /\ UNCHANGED <<html, codec, form, dados, arquivo, extraido, msg, ndig,
                   passos>>

\* dados = extrair_dados(linhas); an exception ends main.
AnaliseExtrair ==
    /\ pc = "lido"
    /\ log' = Append(log, "extrair_dados")
    /\ LET d == extrair_dados(linhas)
       IN  IF IsErro(d)
           THEN msg' = d.erro /\ pc' = "falhou" /\ UNCHANGED dados
           ELSE dados' = d /\ pc' = "extraido" /\ UNCHANGED msg
    /\ UNCHANGED <<html, codec, form, arquivo, linhas, extraido, ndig, passos>>

\* The console summary: the difference of the unit weights is taken without
\* a test for None; every other field goes through fmt_numero.
AnaliseResumo ==
    /\ pc = "extraido"
    /\ log' = Append(log, "resumo")
    /\ IF dados.peso_real.peso_unitario = None
          \/ dados.peso_teorico.peso_unitario = None
       THEN msg' = TypeError.erro /\ pc' = "falhou"
       ELSE pc' = "resumido" /\ UNCHANGED msg
    /\ UNCHANGED <<html, codec, form, dados, arquivo, linhas, extraido, ndig,
                   passos>>

\* html = gerar_html(dados), written to ARQUIVO_HTML.
AnaliseGerarHtml ==
    /\ pc = "resumido"
    /\ log' = Append(log, "gerar_html")
    /\ LET h == gerar_html(dados)
       IN  IF IsErro(h)
           THEN msg' = h.erro /\ pc' = "falhou" /\ UNCHANGED html
           ELSE html' = h /\ pc' = "gerado" /\ UNCHANGED msg
    /\ UNCHANGED <<codec, form, dados, arquivo, linhas, extraido, ndig, passos>>

\* webbrowser.open(ARQUIVO_HTML)
AnaliseAbrir ==
    /\ pc = "gerado"
    /\ log' = Append(log, "webbrowser.open")
    /\ pc' = "aberto"
    /\ UNCHANGED <<html, codec, form, dados, arquivo, linhas, extraido, msg,
                   ndig, passos>>

NextAnalise ==
    \/ AnaliseLerCsv
    \/ AnaliseExtrair
    \/ AnaliseResumo
    \/ AnaliseGerarHtml
    \/ AnaliseAbrir

SpecAnalise == InitAnalise /\ [][NextAnalise]_vars

-----------------------------------------------------------------------------
(* parse_numero and fmt_numero as a codec, on bounded texts and numbers *)

Alfabeto == {"1", "5", "-", "+", ",", ".", " ", "%", "x"}

\* Longest arbitrary text given to parse_numero.
MaxTexto == 3

\* The decimals a number of the model carries.
MaxCasas == CHOOSE k \in 0..9 : Pow10(k) = Unit

TextosCurtos == UNION {[1..k -> Alfabeto] : k \in 0..MaxTexto}

\* Formatted numbers with their number of decimals; the last two carry more
\* decimals than a number of the model does, as a text of more than 17
\* significant digits does for a float.
ParesFormatados ==
    { <<<<"0">>, 0>>,
      <<<<"1", ".", "2", "3", "4">>, 0>>,
      <<<<"-", "1", ".", "2", "3", "4">>, 0>>,
      <<<<"0", ",", "5">>, 1>>,
      <<<<"1", ".", "2", "3", "4", ",", "5", "0">>, 2>>,
      <<<<"-", "1", ".", "2", "3", "4", ",", "5", "0">>, 2>>,
      <<<<"-", "0", ",", "0", "5">>, 2>>,
      <<<<"1", "2", ",", "3", "4", "5", "6">>, 4>>,
      <<<<"0", ",", "0", "0", "0", "1">>, 4>>,
      <<<<"1", ",", "2", "3", "4", "5", "6">>, 5>>,
      <<<<"0", ",", "0", "0", "0", "0", "5">>, 5>> }

ValoresCodec == {None} \cup {Some(v) : v \in {0, 5, -5, 50, 125, 9995, 10000, 12345, -12345, 12345000, -12345000}}

InitCodec ==
    /\ html = Nenhum
    /\ form = FormInicial
    /\ dados = Nenhum
    /\ log = <<>>
    /\ arquivo = <<>>
    /\ linhas = <<>>
    /\ extraido = Nenhum
    /\ msg = ""
    /\ ndig = 0
    /\ passos = 0
    /\ cod_saida = <<>>
    /\ \/ /\ \E p \in (TextosCurtos \X (0..2)) \cup ParesFormatados :
                cod_texto = p[1] /\ cod_casas = p[2]
          /\ cod_valor = None
          /\ pc = "texto"
       \/ /\ cod_valor \in ValoresCodec
          /\ cod_casas \in 0..MaxCasas
          /\ cod_texto = <<>>
          /\ pc = "valor"

Decodificar ==
    /\ pc = "texto"
    /\ cod_valor' = parse_numero(cod_texto)
    /\ pc' = "decodificado"
    /\ UNCHANGED <<html, form, dados, log, arquivo, linhas, extraido, msg,
                   ndig, passos, cod_texto, cod_casas, cod_saida>>

Recodificar ==
    /\ pc = "decodificado"
    /\ cod_saida' = fmt_numero(cod_valor, cod_casas)
    /\ pc' = "recodificado"
    /\ UNCHANGED <<html, form, dados, log, arquivo, linhas, extraido, msg,
                   ndig, passos, cod_texto, cod_casas, cod_valor>>

Codificar ==
    /\ pc = "valor"
    /\ cod_texto' = fmt_numero(cod_valor, cod_casas)
    /\ pc' = "codificado"
    /\ UNCHANGED <<html, form, dados, log, arquivo, linhas, extraido, msg,
                   ndig, passos, cod_casas, cod_valor, cod_saida>>

Redecodificar ==
    /\ pc = "codificado"
    /\ cod_saida' = parse_numero(cod_texto)
    /\ pc' = "redecodificado"
    /\ UNCHANGED <<html, form, dados, log, arquivo, linhas, extraido, msg,
                   ndig, passos, cod_texto, cod_casas, cod_valor>>

NextCodec ==
    \/ Decodificar
    \/ Recodificar
    \/ Codificar
    \/ Redecodificar

SpecCodec == InitCodec /\ [][NextCodec]_vars

-----------------------------------------------------------------------------
(* Properties of the calculator, checked under SpecCalc *)

Calculado == pc = "calculado"

Centesimo == Unit \div 100

\* A mass with at most two decimals.
DuasCasas(v) == v = None \/ v[1] % Centesimo = 0

MassaOuZero(item) == IF item.kgs = None THEN 0 ELSE item.kgs[1]

SomaMassas(sec) ==
    MassaOuZero(sec.itens[1]) + MassaOuZero(sec.itens[2])
        + MassaOuZero(sec.itens[3])

\* C4: after the calculator, totalMass of each section is the sum of the
\* massKg of its three items, an absent massKg counting as 0, rounded to
\* 2 decimals.
C4_TotalMass ==
    Calculado =>
        \A s \in Secoes :
            dados[s].total_kgs = Some(Round(SomaMassas(dados[s]), 2))

\* A theoretical section with an absent mass and masses 0.001 and 0.01,
\* whose total 0.011 is stored as 0.01.
C4_Witness ==
    /\ Calculado
    /\ \E i, j, k \in 1..3 :
          /\ dados.peso_teorico.itens[i].kgs = None
          /\ dados.peso_teorico.itens[j].kgs = Some(Unit \div 1000)
          /\ dados.peso_teorico.itens[k].kgs = Some(Centesimo)
    /\ dados.peso_teorico.total_kgs = Some(Centesimo)

\* C5: after the calculator, every item of both sections has
\* percent = massKg / collectedMassKg * 100 rounded to 2 decimals when
\* collectedMassKg is present and nonzero and the item's massKg is present,
\* and percent = 0 otherwise; percent is never absent.
C5_Percent ==
    Calculado =>
        \A s \in Secoes : \A i \in 1..3 :
            LET item == dados[s].itens[i]
                col  == dados.resumo.kgs_coletados
            IN  /\ item.pct # None
                /\ item.pct =
                      IF col # None /\ col[1] # 0 /\ item.kgs # None
                      THEN Some(RoundQ(item.kgs[1] * 100, col[1], 2))
                      ELSE Some(0)

\* Collected 3.00: an item of mass 1 gets 33.33 and an item without a
\* mass gets 0.
C5_Witness ==
    /\ Calculado
    /\ dados.resumo.kgs_coletados = Some(3 * Unit)
    /\ \E i, j \in 1..3 :
          /\ dados.peso_teorico.itens[i].kgs = Some(Unit)
          /\ dados.peso_teorico.itens[i].pct = Some(3333 * Centesimo)
          /\ dados.peso_teorico.itens[j].kgs = None
          /\ dados.peso_teorico.itens[j].pct = Some(0)

TotalOps == IF dados.ops_total.kgs = None THEN 0 ELSE dados.ops_total.kgs[1]

TotalTeorico ==
    IF dados.peso_teorico.total_kgs = None THEN 0
    ELSE dados.peso_teorico.total_kgs[1]

\* C6 as stated: collectedMassKg is the purchase-order total (0 when
\* absent) rounded to 2 decimals, consumedMassKg is theoretical.totalMass
\* (0 when absent), and the stored outstandingBalanceKg is the stored
\* collectedMassKg minus the stored consumedMassKg.
C6_StoredBalance ==
    Calculado =>
        /\ dados.resumo.kgs_coletados = Some(Round(TotalOps, 2))
        /\ dados.resumo.kgs_consumidos = Some(TotalTeorico)
        /\ dados.resumo.saldo_devedor =
              Some(dados.resumo.kgs_coletados[1]
                     - dados.resumo.kgs_consumidos[1])

\* C6 as the code has it: outstandingBalanceKg is the unrounded
\* purchase-order total minus consumedMassKg, rounded to 2 decimals; it is
\* the difference of the two stored figures whenever the purchase-order
\* total has at most 2 decimals.
C6_Balance ==
    Calculado =>
        /\ dados.resumo.kgs_coletados = Some(Round(TotalOps, 2))
        /\ dados.resumo.kgs_consumidos = Some(TotalTeorico)
        /\ dados.resumo.saldo_devedor = Some(Round(TotalOps - TotalTeorico, 2))
        /\ DuasCasas(Some(TotalOps)) =>
              dados.resumo.saldo_devedor =
                  Some(dados.resumo.kgs_coletados[1]
                         - dados.resumo.kgs_consumidos[1])

\* Purchase-order total 0.125 and consumption 0.01: collected is stored as
\* 0.12 and the balance as 0.12, not 0.11.
C6_Witness ==
    /\ Calculado
    /\ dados.ops_total.kgs = Some(125 * (Unit \div 1000))
    /\ dados.resumo.kgs_coletados = Some(12 * Centesimo)
    /\ dados.resumo.kgs_consumidos = Some(Centesimo)
    /\ dados.resumo.saldo_devedor = Some(12 * Centesimo)

Presentes(campo) ==
    {i \in 1..Len(dados.gramatura) : dados.gramatura[i][campo] # None}

RECURSIVE SomaCampo(_, _)
SomaCampo(campo, S) ==
    IF S = {} THEN 0
    ELSE LET i == CHOOSE i \in S : TRUE
         IN  dados.gramatura[i][campo][1] + SomaCampo(campo, S \ {i})

MediaEsperada(campo, dec) ==
    IF Presentes(campo) = {} THEN None
    ELSE Some(RoundQ(SomaCampo(campo, Presentes(campo)),
                     Cardinality(Presentes(campo)) * Unit, dec))

\* C7: after the calculator, the average of each gauge field (width,
\* length, weight) is the arithmetic mean over exactly the entries in which
\* that field is present, a present 0 included, rounded to 4, 2 and 3
\* decimals; a field with no present entry has an absent average.
C7_GaugeAverages ==
    Calculado =>
        /\ dados.gramatura_media.largura = MediaEsperada("largura", 4)
        /\ dados.gramatura_media.comprimento = MediaEsperada("comprimento", 2)
        /\ dados.gramatura_media.peso = MediaEsperada("peso", 3)

\* Widths 0 and 1.5 and an entry without a width average to 0.75, no
\* length is present, and the weights 0.640 and 0.655 average to 0.648.
C7_Witness ==
    /\ Calculado
    /\ \E i, j, k \in 1..Len(dados.gramatura) :
          /\ dados.gramatura[i].largura = Some(0)
          /\ dados.gramatura[j].largura = Some(15 * (Unit \div 10))
          /\ dados.gramatura[k].largura = None
    /\ dados.gramatura_media.largura = Some(75 * Centesimo)
    /\ dados.gramatura_media.comprimento = None
    /\ dados.gramatura_media.peso = Some(648 * (Unit \div 1000))

\* C8: an aggregate all of whose contributing raw values are absent is
\* absent, not zero: section totalMass and totalPercent, the
\* purchase-order totalMassKg, totalPieceCount and averageUnitWeight, and
\* the gauge averages.
C8_NullPropagation ==
    Calculado =>
        /\ \A s \in Secoes :
              (\A i \in 1..3 : dados[s].itens[i].kgs = None) =>
                  /\ dados[s].total_kgs = None
                  /\ dados[s].total_pct = None
        /\ (\A i \in 1..Len(dados.ops) : dados.ops[i].kgs = None) =>
              dados.ops_total.kgs = None
        /\ (\A i \in 1..Len(dados.ops) : dados.ops[i].pecas = None) =>
              /\ dados.ops_total.pecas = None
              /\ dados.ops_total.peso_medio = None
        /\ Presentes("largura") = {} => dados.gramatura_media.largura = None
        /\ Presentes("comprimento") = {} =>
              dados.gramatura_media.comprimento = None
        /\ Presentes("peso") = {} => dados.gramatura_media.peso = None

SomaPct(sec) == sec.itens[1].pct[1] + sec.itens[2].pct[1] + sec.itens[3].pct[1]

Coletados == dados.resumo.kgs_coletados[1]

\* total_pct was computed from total_kgs.
RamoTotal(sec) ==
    Coletados # 0 /\ sec.total_kgs # None /\ sec.total_kgs[1] # 0

\* C9 as stated: when collectedMassKg is nonzero and totalPercent was
\* computed from totalMass, the sum of the three stored item percents is
\* within less than 0.01 of the stored totalPercent; when totalPercent was
\* computed by the item-sum fallback, it equals that sum exactly.
C9_PercentSum ==
    Calculado =>
        \A s \in Secoes :
            IF RamoTotal(dados[s])
            THEN Abs(SomaPct(dados[s]) - dados[s].total_pct[1]) < Centesimo
            ELSE dados[s].total_pct[1] = SomaPct(dados[s])

\* C9 as the code has it: when every item mass of the section has at most
\* 2 decimals, the sum of the three stored item percents is within 0.02 of
\* the stored totalPercent in either branch; when collectedMassKg is zero
\* both are exactly 0.
C9_PercentSumBound ==
    Calculado =>
        \A s \in Secoes :
            /\ (\A i \in 1..3 : DuasCasas(dados[s].itens[i].kgs)) =>
                  Abs(SomaPct(dados[s]) - dados[s].total_pct[1])
                      <= 2 * Centesimo
            /\ Coletados = 0 =>
                  /\ dados[s].total_pct = Some(0)
                  /\ SomaPct(dados[s]) = 0

\* Three items of mass 1 against 3.00 collected: 33.33 each, 99.99 in sum,
\* against a totalPercent of 100.00 computed from totalMass.
C9_Witness ==
    /\ Calculado
    /\ RamoTotal(dados.peso_teorico)
    /\ \A i \in 1..3 : dados.peso_teorico.itens[i].kgs = Some(Unit)
    /\ SomaPct(dados.peso_teorico) = 9999 * Centesimo
    /\ dados.peso_teorico.total_pct = Some(100 * Unit)

-----------------------------------------------------------------------------
(* Properties of the handlers, checked under Spec *)

Consumidores == {"gerar_html", "gerar_csv"}

\* C10: every record collected from the form passes through all four
\* calculator passes before a consumer (gerar_html or gerar_csv) receives
\* it: in the calls of a handler, each consumer call is preceded by the
\* four passes.
C10_CalculatedBeforeUse ==
    \A i \in 1..Len(log) :
        log[i] \in Consumidores =>
            \A p \in 1..Len(PassosCalculo) :
                \E j \in 1..(i - 1) : log[j] = PassosCalculo[p]

-----------------------------------------------------------------------------
(* Properties of the writer and the extractors, checked under SpecCsv *)

Extraiu(nome) ==
    pc = "extraido" /\ log # <<>> /\ log[Len(log)] = nome

\* Two optional numbers agree to dec decimals.
Igual(a, b, dec) ==
    \/ a = None /\ b = None
    \/ a # None /\ b # None /\ Round(a[1], dec) = Round(b[1], dec)

ItensIguais(a, b) ==
    \A i \in 1..3 :
        /\ a[i].nome = b[i].nome
        /\ Igual(a[i].pecas, b[i].pecas, 0)
        /\ Igual(a[i].kgs, b[i].kgs, 2)
        /\ Igual(a[i].peso_unit, b[i].peso_unit, 4)

OpsIguais(a, b) ==
    /\ Len(a) = Len(b)
    /\ \A i \in 1..Len(a) :
          /\ a[i].op = b[i].op
          /\ Igual(a[i].kgs, b[i].kgs, 2)
          /\ Igual(a[i].pecas, b[i].pecas, 0)

GramaturaIgual(a, b) ==
    /\ Len(a) = Len(b)
    /\ \A i \in 1..Len(a) :
          /\ a[i].manta = b[i].manta
          /\ Igual(a[i].largura, b[i].largura, 2)
          /\ Igual(a[i].comprimento, b[i].comprimento, 2)
          /\ Igual(a[i].peso, b[i].peso, 3)

\* C1: extracting (extrair_dados_csv) from the grid read back from the
\* writer's output (gerar_csv) restores every raw field of the record:
\* title, section unit weights (4 decimals), the name, pieceCount, massKg
\* (2 decimals) and unitWeight of each item, every purchase order and every
\* gauge entry, fields whose value is 0 included.
C1_RoundTrip ==
    (Extraiu("extrair_dados_csv") /\ ~IsNenhum(dados)) =>
        /\ ~IsErro(extraido)
        /\ extraido.titulo = dados.titulo
        /\ \A s \in Secoes :
              /\ Igual(extraido[s].peso_unitario, dados[s].peso_unitario, 4)
              /\ ItensIguais(extraido[s].itens, dados[s].itens)
        /\ OpsIguais(extraido.ops, dados.ops)
        /\ GramaturaIgual(extraido.gramatura, dados.gramatura)

\* C2: on a grid of at least 18 rows extraction does not fail, however few
\* cells a row has; a field whose cell is missing is absent.
C2_RaggedRows ==
    (pc = "extraido" /\ NRows(linhas) >= NLinhas) => ~IsErro(extraido)

\* C3: extraction fails for every grid of fewer than 18 rows and never
\* returns a record for it.
C3_ShortGrid ==
    (pc = "extraido" /\ NRows(linhas) < NLinhas) => IsErro(extraido)

-----------------------------------------------------------------------------
(* Properties of the reports, checked under SpecAnalise *)

Chamou(nome) == \E i \in 1..Len(log) : log[i] = nome

\* The texts a report shows for the computed fields.
Computados(h) ==
    [pct         |-> [s \in Secoes |->
                         [i \in 1..3 |-> h[s].itens[i].pct]],
     total_pct   |-> [s \in Secoes |-> h[s].total_pct],
     total_kgs   |-> [s \in Secoes |-> h[s].total_kgs],
     resumo      |-> h.resumo,
     media       |-> h.gramatura_media]

\* C11: the item percents, section totalPercent and totalMass, summary
\* balance and gauge averages a report shows are the values the calculator
\* derives from the raw entries of the record, never values read from the
\* input grid.
C11_RenderedDerived ==
    (pc \in {"gerado", "aberto"}) =>
        Computados(html) = Computados(gerar_html(Calcular(dados)))

\* C12: a record that reaches the console summary or the renderer is
\* rendered to the end, whichever numeric fields are absent (unit weights
\* and section totalMass included); an absent field is shown as "-".
C12_AbsentNeverFails ==
    Chamou("resumo") => pc # "falhou"

-----------------------------------------------------------------------------
(* Properties of the codec, checked under SpecCodec *)

\* The integer part of a formatted number: digits with a "." before every
\* group of three counted from the right, a digit first, no leading zero.
InteiroFormatado(t) ==
    /\ t # <<>>
    /\ IsDigit(t[1])
    /\ \A i \in 1..Len(t) :
          IF (Len(t) - i + 1) % 4 = 0 THEN t[i] = "." ELSE IsDigit(t[i])
    /\ t[1] = "0" => Len(t) = 1

\* s is a Brazilian-formatted number with d decimals (no negative zero, which
\* the numbers of the model do not have).
Formatado(s, d) ==
    LET neg   == s # <<>> /\ s[1] = "-"
        corpo == IF neg THEN Tail(s) ELSE s
        k     == Len(corpo)
    IN  /\ IF d = 0 THEN InteiroFormatado(corpo)
           ELSE /\ k >= d + 2
                /\ corpo[k - d] = ","
                /\ \A i \in (k - d + 1)..k : IsDigit(corpo[i])
                /\ InteiroFormatado(SubSeq(corpo, 1, k - d - 1))
        /\ neg => \E i \in 1..k : IsDigit(corpo[i]) /\ corpo[i] # "0"

Numerico(t) ==
    LET corpo == IF t # <<>> /\ t[1] \in {"-", "+"} THEN Tail(t) ELSE t
    IN  /\ \A i \in 1..Len(corpo) : IsDigit(corpo[i]) \/ corpo[i] = "."
        /\ Cardinality({i \in 1..Len(corpo) : corpo[i] = "."}) <= 1
        /\ \E i \in 1..Len(corpo) : IsDigit(corpo[i])

\* The text left of t once spaces, "." and "%" are removed and "," is ".".
Limpo(t) ==
    [i \in 1..Len(SelectSeq(t, LAMBDA c : c \notin {" ", ".", "%"})) |->
        LET c == SelectSeq(t, LAMBDA x : x \notin {" ", ".", "%"})[i]
        IN  IF c = "," THEN "." ELSE c]

\* C14: parse_numero never raises; an empty or blank text and "-" (with
\* blanks around it) decode to absent, a text that is still unparsable after
\* the clean-up decodes to absent, and every other text decodes to a number.
C14_DecodeTotal ==
    pc = "decodificado" =>
        /\ cod_valor = None \/ Len(cod_valor) = 1
        /\ cod_valor = None <=>
              \/ Strip(cod_texto) \in {<<>>, <<"-">>}
              \/ ~Numerico(Limpo(cod_texto))

\* " - " decodes to absent.
C14_Witness ==
    /\ pc = "decodificado"
    /\ cod_texto = <<" ", "-", " ">>
    /\ cod_valor = None

-----------------------------------------------------------------------------
(* Properties of gerar_dashboard, checked under Spec *)

Saidas == {"gerar_html", "f.write", "webbrowser.open"}

\* C15: when the collected record has no purchase order or no gauge entry,
\* gerar_dashboard shows a validation warning and goes no further: the
\* renderer is not called and no HTML file is written or opened.
C15_ValidationStops ==
    [][(/\ Len(log') >= 2
        /\ log'[2] = PassosCalculo[1]
        /\ dados'.ops = <<>> \/ dados'.gramatura = <<>>)
       => /\ msg' = "aviso"
          /\ html' = html
          /\ \A i \in 1..Len(log') : log'[i] \notin Saidas]_vars

\* A dashboard run on a form with a purchase order and no gauge entry.
C15_Witness ==
    /\ Len(log) >= 2
    /\ log[2] = PassosCalculo[1]
    /\ dados.ops # <<>>
    /\ dados.gramatura = <<>>
    /\ msg = "aviso"
    /\ ~Chamou("gerar_html")

-----------------------------------------------------------------------------
(* Shape of the written grid, checked under SpecCsv *)

\* C16: for every record, including one whose text holds the ';' delimiter,
\* the output of gerar_csv read back by ler_csv is a grid of exactly 18 rows
\* of exactly 15 cells, with the fields at the coordinates the extractor
\* reads (the title at row 0, column 0).
C16_GridShape ==
    Chamou("ler_csv") =>
        /\ Len(linhas) = NLinhas
        /\ \A r \in 1..Len(linhas) : Len(linhas[r]) = NColunas
        /\ linhas[1][1] = dados.titulo

-----------------------------------------------------------------------------
(* The purchase-order aggregate and the section percent, under SpecCalc *)

\* The OP rows of the form that carry a name.
Incluidas == SelectSeq(form.op_rows, LAMBDA r : Strip(r.op) # <<>>)

\* The number typed into an entry, 0 when it holds none.
Digitado(t) == IF parse_numero(t) = None THEN 0 ELSE parse_numero(t)[1]

MassaOps == SumSeq([i \in 1..Len(Incluidas) |-> Digitado(Incluidas[i].kgs)])

PecasOps == SumSeq([i \in 1..Len(Incluidas) |-> Digitado(Incluidas[i].pecas)])

\* C17: for every record collected from the form, totalMassKg is the sum of
\* the masses and totalPieceCount the sum of the piece counts of the purchase
\* orders with a non-empty id, averageUnitWeight is their quotient and is
\* absent when totalPieceCount is zero; after the calculator collectedMassKg
\* is the sum of the purchase-order masses rounded to 2 decimals.
C17_OrderAggregate ==
    /\ Len(dados.ops) = Len(Incluidas)
    /\ dados.ops_total.kgs = Some(MassaOps)
    /\ dados.ops_total.pecas = Some(PecasOps)
    /\ PecasOps = 0 => dados.ops_total.peso_medio = None
    /\ PecasOps # 0 => dados.ops_total.peso_medio = <<MassaOps, PecasOps>>
    /\ Calculado => dados.resumo.kgs_coletados = Some(Round(MassaOps, 2))

\* Two named orders with piece counts, one unnamed row left out, after the
\* calculator.
C17_Witness ==
    /\ Calculado
    /\ Len(Incluidas) = 2
    /\ Len(form.op_rows) > 2
    /\ PecasOps = 6 * Unit
    /\ MassaOps = 301 * Centesimo
    /\ dados.ops_total.peso_medio = <<MassaOps, PecasOps>>
    /\ dados.resumo.kgs_coletados = Some(301 * Centesimo)

\* Piece counts that cancel: the average unit weight is absent.
C17_WitnessZero ==
    /\ Len(Incluidas) = 2
    /\ Incluidas[1].pecas = <<"-", "2">>
    /\ Incluidas[2].pecas = <<"2">>
    /\ dados.ops_total.peso_medio = None

\* C18: after the calculator, totalPercent of each section is
\* totalMass / collectedMassKg * 100 rounded to 2 decimals whenever both are
\* present and collectedMassKg is nonzero, a totalMass of 0 included; only
\* otherwise is it the sum of the item percents rounded to 2 decimals.
C18_TotalPercent ==
    Calculado =>
        \A s \in Secoes :
            IF /\ dados[s].total_kgs # None
               /\ dados.resumo.kgs_coletados # None
               /\ Coletados # 0
            THEN dados[s].total_pct =
                     Some(RoundQ(dados[s].total_kgs[1] * 100, Coletados, 2))
            ELSE dados[s].total_pct = Some(Round(SomaPct(dados[s]), 2))

-----------------------------------------------------------------------------
(* Order of the passes within gerar_dashboard, checked under Spec *)

Vezes(nome) == Cardinality({i \in 1..Len(log) : log[i] = nome})

Posicao(nome) == CHOOSE i \in 1..Len(log) : log[i] = nome

\* C19: in every dashboard generation the four passes run exactly once each
\* in the order section totals, gauge average, summary balance, percentages,
\* and all four finish before validation and rendering; the summary holds
\* the totalMass written by the totals pass of the same run and the item
\* percents are taken against the collectedMassKg written by the summary
\* pass of the same run.
C19_PassOrder ==
    (\E k \in 1..4 : Chamou(PassosCalculo[k])) =>
        /\ \A k \in 1..4 : Vezes(PassosCalculo[k]) = 1
        /\ \A k \in 1..3 : Posicao(PassosCalculo[k]) < Posicao(PassosCalculo[k + 1])
        /\ \A i \in 1..Len(log) :
               log[i] \in Saidas => Posicao(PassosCalculo[4]) < i
        /\ msg \in {"aviso", "erro", "info"}
        /\ dados.peso_teorico.total_kgs # None
        /\ dados.resumo.kgs_consumidos =
               Some(Round(dados.peso_teorico.total_kgs[1], 2))
        /\ dados.resumo.kgs_coletados # None
        /\ \A s \in Secoes : \A i \in 1..Len(dados[s].itens) :
               dados[s].itens[i].pct = PctItem(dados[s].itens[i], Coletados)

\* A dashboard run that rendered a record with a nonzero theoretical total
\* and a nonzero collected mass.
C19_Witness ==
    /\ msg = "info"
    /\ Chamou("gerar_html")
    /\ Vezes(PassosCalculo[3]) = 1
    /\ dados.peso_teorico.total_kgs # None
    /\ dados.peso_teorico.total_kgs[1] > 0
    /\ dados.resumo.kgs_consumidos = dados.peso_teorico.total_kgs
    /\ Coletados > 0
    /\ dados.peso_teorico.itens[1].pct[1] > 0

-----------------------------------------------------------------------------
(* Stale computed values, checked under SpecObsoleto *)

\* C20: the calculator overwrites every stale computed value: two records
\* that agree on all raw fields and on the purchase-order aggregate and
\* differ in section totalMass, section totalPercent, item percent, the
\* three summary fields and the three gauge averages are identical after
\* the four passes.
C20_StaleOverwritten ==
    Calculado =>
        \A t \in Obsoletos, p \in Obsoletos, r \in Obsoletos, g \in Obsoletos :
            dados = Calcular(Sujar(coletar_dados(form), t, p, r, g))

\* A record that entered the calculator with a stale value in every
\* computed field and left it with none of them.
C20_Witness ==
    /\ Calculado
    /\ coletar_dados(form).peso_teorico.itens[1].kgs = Some(Unit)
    /\ dados.peso_teorico.total_kgs = Some(101 * Centesimo)
    /\ dados.resumo.kgs_coletados = Some(3 * Unit)
    /\ dados.peso_teorico.itens[1].pct = Some(3333 * Centesimo)
    /\ dados.gramatura_media.peso = None

-----------------------------------------------------------------------------
(* Algebra and frame of the calculator *)

\* C21: the calculator is idempotent: the four passes applied in order a
\* second time to a record on which they already ran leave every field of
\* the record unchanged.
C21_Idempotent ==
    [][pc = "calculado" /\ pc' = "recalculado" => dados' = dados]_vars

\* A record with nonzero totals, percents, balance and gauge averages on
\* which the passes ran twice (checked under SpecCalc).
C21_Witness ==
    /\ pc = "recalculado"
    /\ Len(log) = 9
    /\ dados.peso_teorico.total_kgs = Some(3 * Unit)
    /\ dados.resumo.kgs_coletados = Some(301 * Centesimo)
    /\ dados.resumo.saldo_devedor = Some(Centesimo)
    /\ dados.peso_teorico.total_pct = Some(9967 * Centesimo)

\* The record without the targets of each pass.
SemTotais(d) ==
    [d EXCEPT !.peso_teorico.total_kgs = None, !.peso_real.total_kgs = None]

SemMedias(d) ==
    [d EXCEPT !.gramatura_media =
                  [largura |-> None, comprimento |-> None, peso |-> None]]

SemResumo(d) ==
    [d EXCEPT !.resumo = [kgs_coletados |-> None, kgs_consumidos |-> None,
                          saldo_devedor |-> None]]

SemPctSecao(sec) ==
    [sec EXCEPT !.total_pct = None,
                !.itens = [i \in 1..Len(sec.itens) |->
                              [sec.itens[i] EXCEPT !.pct = None]]]

SemPercentuais(d) ==
    [d EXCEPT !.peso_teorico = SemPctSecao(d.peso_teorico),
              !.peso_real = SemPctSecao(d.peso_real)]

\* C22: the calculator changes only computed fields: each pass leaves the
\* title, the unit weights, the raw item fields, the purchase orders and
\* their aggregate and the gauge entries unchanged, and writes only its own
\* targets (totals pass: section totalMass; gauge pass: the averages; summary
\* pass: the three balance fields; percentages pass: item percent and section
\* totalPercent).
C22_Frame ==
    [][/\ pc = "coletado" => SemTotais(dados') = SemTotais(dados)
       /\ pc = "total_kgs" => SemMedias(dados') = SemMedias(dados)
       /\ pc = "media" => SemResumo(dados') = SemResumo(dados)
       /\ pc = "resumo" => SemPercentuais(dados') = SemPercentuais(dados)
       /\ Sujar(dados', None, None, None, None)
              = Sujar(dados, None, None, None, None)]_vars

\* A record that entered with a stale value in every computed field, after
\* the totals pass: the total is new, the other stale values are still there
\* (checked under SpecObsoleto).
C22_Witness ==
    /\ pc = "total_kgs"
    /\ dados.peso_teorico.total_kgs = Some(101 * Centesimo)
    /\ dados.peso_teorico.total_pct = Some(777 * Unit)
    /\ dados.peso_teorico.itens[1].pct = Some(777 * Unit)
    /\ dados.resumo.saldo_devedor = Some(777 * Unit)
    /\ dados.gramatura_media.largura = Some(777 * Unit)

-----------------------------------------------------------------------------
(* The extracted sequences, checked under SpecCsv *)

\* The k-th smallest element of a set of rows.
Enesima(S, k) == CHOOSE i \in S : Cardinality({j \in S : j < i}) = k - 1

\* The number in a cell, absent when the row has no such cell.
NumNaCel(r, c) ==
    IF RowLen(linhas, r) > c THEN parse_numero(Cel(linhas, r, c)) ELSE None

\* The rows among 2 to 6 whose column-6 cell, trimmed, is neither empty nor
\* the literal TOTAL.
LinhasOp ==
    {i \in 2..6 : /\ RowLen(linhas, i) > 6
                  /\ Strip(Cel(linhas, i, 6)) # <<>>
                  /\ Strip(Cel(linhas, i, 6)) # <<"T", "O", "T", "A", "L">>}

\* C23: the extracted purchase-order sequence consists, in row order, of
\* exactly the rows among rows 2 to 6 whose column-6 cell is non-empty after
\* trimming and is not the literal TOTAL, each with the mass of column 7 and
\* the piece count of column 8 of its row; at most 5 entries are extracted.
C23_ExtractedOrders ==
    (pc = "extraido" /\ ~IsErro(extraido)) =>
        /\ Len(extraido.ops) = Cardinality(LinhasOp)
        /\ Len(extraido.ops) <= 5
        /\ \A k \in 1..Len(extraido.ops) :
              LET i == Enesima(LinhasOp, k)
              IN  /\ extraido.ops[k].op = Strip(Cel(linhas, i, 6))
                  /\ extraido.ops[k].kgs = NumNaCel(i, 7)
                  /\ extraido.ops[k].pecas = NumNaCel(i, 8)

\* A grid with TOTAL in row 3 and orders in rows 2, 4, 5 and 6.
C23_Witness ==
    /\ pc = "extraido"
    /\ ~IsErro(extraido)
    /\ LinhasOp = {2, 4, 5, 6}
    /\ Strip(Cel(linhas, 3, 6)) = <<"T", "O", "T", "A", "L">>
    /\ Len(extraido.ops) = 4
    /\ extraido.ops[2].kgs = Some(75 * (Unit \div 10))
    /\ extraido.ops[4].op = <<"O", "P", "9">>

\* The rows among 3 to 15 whose column-11 cell, trimmed, starts with "#".
LinhasManta ==
    {i \in 3..15 : /\ RowLen(linhas, i) > 11
                   /\ Strip(Cel(linhas, i, 11)) # <<>>
                   /\ Strip(Cel(linhas, i, 11))[1] = "#"}

\* C24: the extracted gauge sequence consists, in row order, of exactly the
\* rows among rows 3 to 15 whose column-11 cell is non-empty after trimming
\* and starts with "#", each with width, length and weight from columns 12,
\* 13 and 14 of its row; a row whose label does not start with "#"
\* contributes no entry even when it carries measurements.
C24_ExtractedGauge ==
    (pc = "extraido" /\ ~IsErro(extraido)) =>
        /\ Len(extraido.gramatura) = Cardinality(LinhasManta)
        /\ \A k \in 1..Len(extraido.gramatura) :
              LET i == Enesima(LinhasManta, k)
              IN  /\ extraido.gramatura[k].manta = Strip(Cel(linhas, i, 11))
                  /\ extraido.gramatura[k].largura = NumNaCel(i, 12)
                  /\ extraido.gramatura[k].comprimento = NumNaCel(i, 13)
                  /\ extraido.gramatura[k].peso = NumNaCel(i, 14)

\* A grid whose row 9 is labelled M7 and carries a length, and whose row 15
\* is labelled " #8 " and carries a weight.
C24_Witness ==
    /\ pc = "extraido"
    /\ ~IsErro(extraido)
    /\ RowLen(linhas, 9) = NColunas
    /\ Cel(linhas, 9, 11) = <<"M", "7">>
    /\ NumNaCel(9, 13) = Some(15 * (Unit \div 10))
    /\ 9 \notin LinhasManta
    /\ 15 \in LinhasManta
    /\ Len(extraido.gramatura) = 12
    /\ extraido.gramatura[12].manta = <<"#", "8">>
    /\ extraido.gramatura[12].peso = Some(7 * (Unit \div 10))

-----------------------------------------------------------------------------
(* Capacity of the written grid, checked under SpecCsv *)

Min(a, b) == IF a < b THEN a ELSE b

Ids(ops) == [i \in 1..Len(ops) |-> ops[i].op]

Rotulos(gram) == [i \in 1..Len(gram) |-> gram[i].manta]

SemPontoEVirgula(t) == \A i \in 1..Len(t) : t[i] # ";"

\* A text the reader gives back as written: no delimiter in it and no quote
\* at its start.
Legivel(t) == SemPontoEVirgula(t) /\ (t = <<>> \/ t[1] # "\"")

\* The record as the claim takes it: ids non-empty, not TOTAL and without
\* the delimiter, labels starting with "#" and without the delimiter.
RegistroComum(d) ==
    /\ \A i \in 1..Len(d.ops) :
          /\ d.ops[i].op \notin {<<>>, <<"T", "O", "T", "A", "L">>}
          /\ SemPontoEVirgula(d.ops[i].op)
    /\ \A i \in 1..Len(d.gramatura) :
          /\ d.gramatura[i].manta # <<>>
          /\ d.gramatura[i].manta[1] = "#"
          /\ SemPontoEVirgula(d.gramatura[i].manta)

\* Every text of the record is given back as written.
RegistroLegivel(d) ==
    /\ Legivel(d.titulo)
    /\ \A s \in Secoes : \A i \in 1..Len(d[s].itens) : Legivel(d[s].itens[i].nome)
    /\ \A i \in 1..Len(d.ops) : Legivel(d.ops[i].op)
    /\ \A i \in 1..Len(d.gramatura) : Legivel(d.gramatura[i].manta)

\* The first min(n, 4) ids and the first min(m, 13) labels come back, in
\* order, without an error.
Capacidade ==
    /\ ~IsErro(extraido)
    /\ Ids(extraido.ops) = SubSeq(Ids(dados.ops), 1, Min(Len(dados.ops), 4))
    /\ Rotulos(extraido.gramatura) =
           SubSeq(Rotulos(dados.gramatura), 1, Min(Len(dados.gramatura), 13))

-----------------------------------------------------------------------------
(* Loading a file into the form, checked under Spec *)

LogCarga == <<"ler_csv", "extrair_dados_csv", "preencher_formulario">>

\* The value has no more than dec decimals.
Decimais(v, dec) == dec >= MaxCasas \/ v[1] % Pow10(MaxCasas - dec) = 0

\* A present extracted value of at most dec decimals is collected again.
Preservado(e, c, dec) == (e # None /\ Decimais(e, dec)) => c = e

ItensPreservados(e, c) ==
    /\ Len(c) = Len(e)
    /\ \A i \in 1..Len(e) :
          /\ c[i].nome = e[i].nome
          /\ Preservado(e[i].pecas, c[i].pecas, 0)
          /\ Preservado(e[i].kgs, c[i].kgs, 4)
          /\ Preservado(e[i].peso_unit, c[i].peso_unit, 6)

\* Every raw field of the extracted record e but the title is found again
\* in the collected record c.
BrutosPreservados(e, c) ==
    /\ \A s \in Secoes :
          /\ Preservado(e[s].peso_unitario, c[s].peso_unitario, 4)
          /\ ItensPreservados(e[s].itens, c[s].itens)
    /\ Len(c.ops) = Len(e.ops)
    /\ \A i \in 1..Len(e.ops) :
          /\ c.ops[i].op = e.ops[i].op
          /\ Preservado(e.ops[i].kgs, c.ops[i].kgs, 1)
          /\ Preservado(e.ops[i].pecas, c.ops[i].pecas, 0)
    /\ Len(c.gramatura) = Len(e.gramatura)
    /\ \A i \in 1..Len(e.gramatura) :
          /\ c.gramatura[i].manta = e.gramatura[i].manta
          /\ Preservado(e.gramatura[i].largura, c.gramatura[i].largura, 2)
          /\ Preservado(e.gramatura[i].comprimento, c.gramatura[i].comprimento, 2)
          /\ Preservado(e.gramatura[i].peso, c.gramatura[i].peso, 3)

\* C26 as stated: after a successful carregar_csv, coletar_dados returns for
\* every present raw numeric field the extracted value, provided the value
\* has no more decimals than the fill format of its entry, and returns the
\* title, the item names, the order ids and the gauge labels unchanged.
C26_LoadCollect ==
    [][(log' = LogCarga /\ msg' = "info" /\ ndig' = ndig /\ passos' # passos)
       => /\ BrutosPreservados(extraido', coletar_dados(form'))
          /\ coletar_dados(form').titulo = extraido'.titulo]_vars

\* C26 with the title as the form program collects it: a non-empty title
\* comes back unchanged, an empty one as the default title.
C26_LoadCollectTitled ==
    [][(log' = LogCarga /\ msg' = "info" /\ ndig' = ndig /\ passos' # passos)
       => /\ BrutosPreservados(extraido', coletar_dados(form'))
          /\ extraido'.titulo # <<>> =>
                 coletar_dados(form').titulo = extraido'.titulo
          /\ extraido'.titulo = <<>> =>
                 coletar_dados(form').titulo = TituloDefault]_vars

\* The example loaded: its title, its OP of 1000 kg and 1500 pieces and its
\* unit weight of 0.6447 are in the form.
C26_Witness ==
    /\ log = LogCarga
    /\ msg = "info"
    /\ ndig = 0
    /\ ~IsNenhum(extraido)
    /\ ~IsErro(extraido)
    /\ extraido.titulo = <<"L", "O", "T", "E", " ", "7">>
    /\ form.titulo = extraido.titulo
    /\ extraido.ops[1].kgs = Some(1000 * Unit)
    /\ coletar_dados(form).ops[1].kgs = Some(1000 * Unit)
    /\ coletar_dados(form).ops[1].pecas = Some(1500 * Unit)
    /\ coletar_dados(form).peso_teorico.peso_unitario = Some(6447)

-----------------------------------------------------------------------------
(* limpar_tudo, checked under Spec *)

\* Every entry of the form is empty.
FormVazio(f) ==
    /\ f.titulo = <<>> /\ f.pt_unit = <<>> /\ f.pr_unit = <<>>
    /\ \A rows \in {f.pt_items, f.pr_items} : \A i \in 1..Len(rows) :
          /\ rows[i].nome = <<>> /\ rows[i].pecas = <<>>
          /\ rows[i].kgs = <<>> /\ rows[i].peso_unit = <<>>
    /\ \A i \in 1..Len(f.op_rows) :
          f.op_rows[i].op = <<>> /\ f.op_rows[i].kgs = <<>>
              /\ f.op_rows[i].pecas = <<>>
    /\ \A i \in 1..Len(f.manta_rows) :
          /\ f.manta_rows[i].manta = <<>> /\ f.manta_rows[i].largura = <<>>
          /\ f.manta_rows[i].comprimento = <<>> /\ f.manta_rows[i].peso = <<>>

\* The record holds no purchase order, no gauge entry and no item value.
RegistroVazio(d) ==
    /\ d.ops = <<>>
    /\ d.gramatura = <<>>
    /\ \A s \in Secoes : \A i \in 1..Len(d[s].itens) :
          /\ d[s].itens[i].pecas = None
          /\ d[s].itens[i].kgs = None
          /\ d[s].itens[i].peso_unit = None

\* C27: from any form state, after limpar_tudo every entry (title, both unit
\* weights, every item field, every purchase-order row field and every gauge
\* row field) is empty, so a following coletar_dados contains no purchase
\* order, no gauge entry and no present item value.
C27_ClearAll ==
    [][(log' = <<"limpar_tudo">> /\ ndig' = ndig /\ passos' # passos)
       => FormVazio(form') /\ RegistroVazio(coletar_dados(form'))]_vars

\* C28: after a successful carregar_csv, whatever rows the form held before,
\* the form holds exactly one purchase-order row per extracted purchase
\* order and one gauge row per extracted gauge entry, in extraction order,
\* each showing the extracted id or label; no row from before the load
\* survives.
C28_RowsReplaced ==
    [][(log' = LogCarga /\ msg' = "info" /\ ndig' = ndig /\ passos' # passos)
       => /\ Len(form'.op_rows) = Len(extraido'.ops)
          /\ \A i \in 1..Len(form'.op_rows) :
                /\ form'.op_rows[i].op = extraido'.ops[i].op
                /\ extraido'.ops[i].kgs = None => form'.op_rows[i].kgs = <<>>
                /\ extraido'.ops[i].pecas = None => form'.op_rows[i].pecas = <<>>
          /\ Len(form'.manta_rows) = Len(extraido'.gramatura)
          /\ \A i \in 1..Len(form'.manta_rows) :
                /\ form'.manta_rows[i].manta = extraido'.gramatura[i].manta
                /\ extraido'.gramatura[i].largura = None =>
                       form'.manta_rows[i].largura = <<>>]_vars

\* A load that left one purchase-order row and no gauge row in a form that
\* started with 4 and 13.
C28_Witness ==
    /\ log = LogCarga
    /\ msg = "info"
    /\ ndig = 0
    /\ ~IsNenhum(extraido)
    /\ ~IsErro(extraido)
    /\ Len(extraido.ops) = 1
    /\ extraido.gramatura = <<>>
    /\ Len(form.op_rows) = 1
    /\ form.op_rows[1].op = <<"O", "P", "1">>
    /\ form.manta_rows = <<>>

LogsFalha == {<<"ler_csv">>, <<"ler_csv", "extrair_dados_csv">>}

\* C29: a failed load leaves the form unchanged: when reading the file or
\* extracting from the grid raises during carregar_csv, an error is shown
\* and every entry, the list of purchase-order rows and the list of gauge
\* rows are exactly as before the load was attempted.
C29_FailedLoad ==
    [][(log' \in LogsFalha /\ ndig' = ndig /\ passos' # passos)
       => msg' = "erro" /\ form' = form]_vars

\* A failed extraction on a form that holds a loaded title and a loaded
\* purchase order.
C29_Witness ==
    /\ log = <<"ler_csv", "extrair_dados_csv">>
    /\ msg = "erro"
    /\ IsErro(extraido)
    /\ form.titulo = <<"L", "O", "T", "E", " ", "7">>
    /\ Len(form.op_rows) = 1
    /\ form.op_rows[1].kgs # <<>>

-----------------------------------------------------------------------------
(* The row lists as stacks, checked under SpecLinhas *)

SemUltima(rows) == SubSeq(rows, 1, Len(rows) - 1)

\* C30: after any sequence of adicionar_op/remover_op (respectively
\* adicionar_manta/remover_manta) each add appends one row at the end, each
\* remove deletes exactly the most recently added remaining row, a remove
\* on an empty list changes nothing, and an operation on one list never
\* changes the other list.
C30_RowStacks ==
    [][/\ (passos' # passos /\ ndig' = ndig /\ log' = <<"adicionar_op">>) =>
            /\ Len(form'.op_rows) = Len(form.op_rows) + 1
            /\ SemUltima(form'.op_rows) = form.op_rows
            /\ form'.manta_rows = form.manta_rows
       /\ (passos' # passos /\ ndig' = ndig /\ log' = <<"remover_op">>) =>
            /\ form.op_rows = <<>> => form' = form
            /\ form.op_rows # <<>> => form'.op_rows = SemUltima(form.op_rows)
            /\ form'.manta_rows = form.manta_rows
       /\ (passos' # passos /\ ndig' = ndig /\ log' = <<"adicionar_manta">>) =>
            /\ Len(form'.manta_rows) = Len(form.manta_rows) + 1
            /\ SemUltima(form'.manta_rows) = form.manta_rows
            /\ form'.op_rows = form.op_rows
       /\ (passos' # passos /\ ndig' = ndig /\ log' = <<"remover_manta">>) =>
            /\ form.manta_rows = <<>> => form' = form
            /\ form.manta_rows # <<>> =>
                   form'.manta_rows = SemUltima(form.manta_rows)
            /\ form'.op_rows = form.op_rows]_vars

\* An added OP row removed again from above OP1 and OP2, the gauge rows as
\* they were.
C30_Witness ==
    /\ passos = 3
    /\ log = <<"remover_op">>
    /\ Len(form.op_rows) = 2
    /\ form.op_rows[1].op = <<"O", "P", "1">>
    /\ form.op_rows[2].op = <<"O", "P", "2">>
    /\ Len(form.manta_rows) = MantasDefault

\* A remove on an empty list of OP rows.
C30_WitnessEmpty ==
    /\ passos = 1
    /\ log = <<"remover_op">>
    /\ form.op_rows = <<>>
    /\ form.manta_rows # <<>>

=============================================================================
